---- MODULE Spec2Model ----
(***************************************************************************)
(* A model of the stack engine of terragrunt-gcp-tool-mcp:                 *)
(*   - StackManager._calculate_execution_order, the batched topological    *)
(*     sort of the units of a stack (specification SpecPlan);              *)
(*   - StackManager.execute_stack_command, the life of one StackExecution  *)
(*     around the external command runner (specification SpecExec);        *)
(*   - utils.run_command, one call of the command runner with its          *)
(*     subprocess and environment (specification SpecRun);                 *)
(*   - TerragruntManager.discover_resources and                            *)
(*     StackManager.discover_stacks, one discovery call over a directory   *)
(*     tree (specification SpecDisc);                                      *)
(*   - utils.parse_terragrunt_path and utils.build_terragrunt_path, one    *)
(*     path taken apart and put together again (specification SpecPath);   *)
(*   - TerragruntManager._get_resource_dependencies and                    *)
(*     StackManager._get_unit_dependencies on one unit's file              *)
(*     (specification SpecDeps);                                           *)
(*   - the units of a stack while execute_stack_command awaits its         *)
(*     subprocess (specification SpecStackRun);                            *)
(*   - the visualize_infrastructure tool, one request                      *)
(*     (specification SpecViz);                                            *)
(*   - StackManager._parse_stack_output on the output of one stack         *)
(*     command (specification SpecParse);                                  *)
(*   - TerragruntManager.plan_resource and apply_resource with             *)
(*     _ensure_initialized, one call (specification SpecOp);               *)
(*   - TerragruntManager._build_tree_structure on one list of resources    *)
(*     (specification SpecTree);                                           *)
(*   - the ids that the calls of execute_stack_command give to their       *)
(*     executions (specification SpecId).                                  *)
(* Each specification holds the variables of the others at their initial   *)
(* values.                                                                 *)
(***************************************************************************)
EXTENDS Integers, Sequences, FiniteSets, TLC

(***************************************************************************)
(* Bounds and input alphabets.                                             *)
(***************************************************************************)

\* The unit paths a repository may hold. A path that is not discovered as a
\* unit of the stack is an external (dangling) dependency target.
Paths == {"web", "db", "lb", "dns"}

\* The most dependency entries (config_path matches) declared in one stack.
MaxEdges == 3

\* A cap on the planner's loop, above the number of paths: the code's loop
\* never reaches it (PlanLoopWithinCap below), a broken loop stops at it.
MaxBatches == 5

VARIABLES
    \* ---- _calculate_execution_order
    units,              \* the paths of the units handed to the planner
    dependencies,       \* unit.dependencies, a list per path
    remaining_units,    \* the local set remaining_units
    execution_order,    \* the local list execution_order; a batch is a set:
                        \* its list order is the iteration order of a set
    warnings,           \* number of logger.warning calls of the planner
    plan_pc,            \* "discover" | "loop" | "done"
    \* ---- execute_stack_command
    exec_pc,            \* the position of the coroutine (see ExecPositions)
    command,            \* the argument command
    dry_run,            \* the argument dry_run
    execution,          \* the StackExecution, or None before it is created
    run_state,          \* the awaited run_command call: "not_called" |
                        \* "running" | "returned" | "raised"
    cmd_result,         \* the tuple run_command returned, or None
    runner_calls,       \* every argv handed to run_command by this call
    completed_at_writes,\* number of assignments to execution.completed_at
    now,                \* datetime.now(), in seconds
    \* ---- run_command
    run_pc,             \* "idle" | "launch" | "wait" | "returned" | "raised"
    argv_ok,            \* the argument command is a list of str
    env_vars,           \* the argument env_vars (the empty dict for None)
    os_environ,         \* os.environ of the calling process
    environ_at_call,    \* os.environ as it was when run_command was called
    child_env,          \* the env handed to create_subprocess_exec
    proc,               \* the subprocess: "none" | "running" | "exited"
    run_event,          \* what ended the call: "none" | "exit" | "timeout" |
                        \* "launch_error"
    run_result,         \* the tuple run_command returned, or NoResult
    \* ---- discover_resources, discover_stacks
    fs,                 \* the directories under root_path: path -> file names
    unreadable,         \* directories whose terragrunt.hcl cannot be opened
    disc_pc,            \* "idle" | "walk" | "stack_units" | "done"
    disc_mode,          \* "resources" | "stacks" | "stacks_disabled" | None
    environment,        \* the argument environment, or None
    walk,               \* os.walk(live_path): the directories still to yield
    unit_walk,          \* os.walk(stack_full_path) of _discover_stack_units
    stack_path,         \* the stack _create_stack_from_path is building
    stack_units,        \* the local list units of _discover_stack_units
    result,             \* the local list resources / stacks
    probes,             \* the unit paths whose status probe was started
    last_probe,         \* the latest unit probe: path, event and status
    visited,            \* every directory an os.walk of the call yielded
    live_warnings,      \* number of "Live directory not found" warnings
    \* ---- parse_terragrunt_path, build_terragrunt_path
    path_parts,         \* Path(path).parts of the argument path
    parsed,             \* the dict parse_terragrunt_path returned
    built_path,         \* the segments of what build_terragrunt_path returned
    path_pc,            \* "input" | "parsed" | "built" | "raised"
    \* ---- _get_resource_dependencies, _get_unit_dependencies
    dep_root,           \* self.root_path, absolute, in segments
    dep_unit,           \* the unit's path below root_path, in segments
    dep_refs,           \* the config_path of each dependency block, in order
    resource_deps,      \* what _get_resource_dependencies returned
    unit_deps,          \* what _get_unit_dependencies returned
    deps_done,          \* which of the two has returned
    \* ---- the units of one `terragrunt stack run`
    sr_pc,              \* "idle" | "running" | "returned"
    execution_plan,     \* execution.execution_plan
    unit_state,         \* per unit: "pending" | "running" | "finished"
    \* ---- visualize_infrastructure
    viz_pc,             \* "idle" | "tree" | "graph" | "done" | "failed"
    visualization_type, \* the argument visualization_type
    include_dependencies, \* the argument include_dependencies
    output_format,      \* the argument output_format
    find_calls,         \* every find command run for the request
    results,            \* the keys of the local dict results
    repo_version,       \* the state of the tree below root_path
    tree_seen,          \* the repo_version the tree's find command saw
    graph_seen,         \* the repo_version the graph's find command saw
    \* ---- _parse_stack_output
    parse_pc,           \* "output" | "scan" | "returned"
    stdout_lines,       \* stdout.split('\n')
    stderr_lines,       \* stderr.split('\n')
    lines,              \* the lines the loop has still to scan
    current_unit,       \* the local current_unit
    unit_results,       \* the local dict unit_results
    \* ---- plan_resource, apply_resource
    op_pc,              \* "idle" | "ensure" | "command" | "returned" | "raised"
    op,                 \* "plan" | "apply", or None before the call
    op_arg,             \* the argument dry_run of plan, plan_file of apply
    dir_exists,         \* os.path.exists(full_path)
    has_cache,          \* os.path.exists(cache_path)
    cache_found,        \* what _ensure_initialized saw of the cache
    op_calls,           \* every argv handed to run_command by the call
    init_result,        \* the tuple run_command returned for init
    op_result,          \* the tuple run_command returned for plan or apply
    \* ---- _build_tree_structure
    tree_pc,            \* "input" | "built"
    resources_data,     \* the argument resources_data
    tree_include_dependencies, \* the argument include_dependencies
    tree_max_depth,     \* the argument max_depth
    tree,               \* the nodes of the returned tree, by path
    \* ---- the ids of the executions
    id_now,             \* datetime.now(), in ticks
    call_pc,            \* per call: "idle" | "create_stack" | "created" |
                        \* "raised"
    execution_id,       \* per call: the local execution_id
    executions          \* per call: the id of the StackExecution created

planVars == <<units, dependencies, remaining_units, execution_order,
              warnings, plan_pc>>

execVars == <<exec_pc, command, dry_run, execution, run_state, cmd_result,
              runner_calls, completed_at_writes, now>>

runVars == <<run_pc, argv_ok, env_vars, os_environ, environ_at_call,
             child_env, proc, run_event, run_result>>

discVars == <<fs, unreadable, disc_pc, disc_mode, environment, walk,
              unit_walk, stack_path, stack_units, result, probes,
              last_probe, visited, live_warnings>>

pathVars == <<path_parts, parsed, built_path, path_pc>>

depsVars == <<dep_root, dep_unit, dep_refs, resource_deps, unit_deps,
              deps_done>>

stackRunVars == <<sr_pc, execution_plan, unit_state>>

vizVars == <<viz_pc, visualization_type, include_dependencies,
              output_format, find_calls, results, repo_version, tree_seen,
              graph_seen>>

parseVars == <<parse_pc, stdout_lines, stderr_lines, lines, current_unit,
                unit_results>>

opVars == <<op_pc, op, op_arg, dir_exists, has_cache, cache_found,
             op_calls, init_result, op_result>>

treeVars == <<tree_pc, resources_data, tree_include_dependencies,
               tree_max_depth, tree>>

idVars == <<id_now, call_pc, execution_id, executions>>

\* The variables of the engine proper, and those of the helpers around it.
coreVars == <<planVars, execVars, runVars, discVars>>

extVars == <<pathVars, depsVars, stackRunVars, vizVars, parseVars, opVars,
              treeVars, idVars>>

\* What the actions of one helper leave alone.
othersPath == <<depsVars, stackRunVars, vizVars, parseVars, opVars,
                 treeVars, idVars>>

othersDeps == <<pathVars, stackRunVars, vizVars, parseVars, opVars,
                 treeVars, idVars>>

othersStackRun == <<pathVars, depsVars, vizVars, parseVars, opVars,
                     treeVars, idVars>>

othersViz == <<pathVars, depsVars, stackRunVars, parseVars, opVars,
                treeVars, idVars>>

othersParse == <<pathVars, depsVars, stackRunVars, vizVars, opVars,
                  treeVars, idVars>>

othersOp == <<pathVars, depsVars, stackRunVars, vizVars, parseVars,
               treeVars, idVars>>

othersTree == <<pathVars, depsVars, stackRunVars, vizVars, parseVars,
                 opVars, idVars>>

othersId == <<pathVars, depsVars, stackRunVars, vizVars, parseVars, opVars,
               treeVars>>

vars == <<coreVars, extVars>>

(***************************************************************************)
(* _calculate_execution_order (stack_manager.py 295-322)                   *)
(***************************************************************************)

\* Number of dependency entries declared so far, over all units.
RECURSIVE SumLen(_, _)
SumLen(deps, ps) ==
    IF ps = {} THEN 0
    ELSE LET p == CHOOSE q \in ps : TRUE
         IN Len(deps[p]) + SumLen(deps, ps \ {p})

TotalEdges == SumLen(dependencies, Paths)

\* A slip: a dependency outside the unit set is treated as unresolved.
UnresolvedDepsUnknownBlocks(deps, unit_path, remaining) ==
    SelectSeq(deps[unit_path],
              LAMBDA dep : dep \in remaining \/ dep \notin units)

\* A slip: only the first declared dependency is looked at.
UnresolvedDepsHeadOnly(deps, unit_path, remaining) ==
    IF deps[unit_path] = <<>> THEN <<>>
    ELSE SelectSeq(<<Head(deps[unit_path])>>, LAMBDA dep : dep \in remaining)

\* line 310: [dep for dep in unit.dependencies if dep in remaining_units]
UnresolvedDeps(deps, unit_path, remaining) ==
    SelectSeq(deps[unit_path], LAMBDA dep : dep \in remaining)

\* A slip: the scan stops at the first ready unit.
ReadyUnitsFirstOnly(deps, remaining) ==
    LET all == {u \in remaining : UnresolvedDeps(deps, u, remaining) = <<>>}
    IN IF all = {} THEN {} ELSE {CHOOSE u \in all : TRUE}

\* lines 307-312: the units of remaining_units with no unresolved dependency
ReadyUnits(deps, remaining) ==
    {u \in remaining : UnresolvedDeps(deps, u, remaining) = <<>>}

\* A slip: the forced branch leaves ready_units empty (warns and goes on).
ForcedUnitsNone(remaining) == {}

\* A slip: the forced branch releases a single unit of the cycle.
ForcedUnitsOne(remaining) == {CHOOSE u \in remaining : TRUE}

\* line 317: ready_units = list(remaining_units)
ForcedUnits(remaining) == remaining

\* lines 307-319: the batch appended by one iteration of the loop
NextBatch(deps, remaining) ==
    IF ReadyUnits(deps, remaining) = {}
    THEN ForcedUnits(remaining)
    ELSE ReadyUnits(deps, remaining)

\* lines 305-320 as a function: the batches emitted from `remaining` on
RECURSIVE OrderFrom(_, _)
OrderFrom(deps, remaining) ==
    IF remaining = {} THEN <<>>
    ELSE LET batch == NextBatch(deps, remaining)
         IN <<batch>> \o OrderFrom(deps, remaining \ batch)

\* lines 295-322 as a function of the unit paths and their dependency lists
CalculateExecutionOrder(us, deps) ==
    IF us = {} THEN <<>> ELSE OrderFrom(deps, us)

PlanInit ==
    /\ units = {}
    /\ dependencies = [p \in Paths |-> <<>>]
    /\ remaining_units = {}
    /\ execution_order = <<>>
    /\ warnings = 0
    /\ plan_pc = "discover"

\* _discover_stack_units: one more unit is found below the stack directory.
DiscoverUnit(p) ==
    /\ plan_pc = "discover"
    /\ p \notin units
    /\ units' = units \cup {p}
    /\ UNCHANGED <<dependencies, remaining_units, execution_order, warnings,
                   plan_pc>>
    /\ UNCHANGED <<execVars, runVars, discVars, extVars>>

\* _get_unit_dependencies: one more config_path match is appended to the
\* list of unit p; d may be p itself, a path listed before, or no unit.
DeclareDependency(p, d) ==
    /\ plan_pc = "discover"
    /\ p \in units
    /\ TotalEdges < MaxEdges
    /\ dependencies' = [dependencies EXCEPT ![p] = Append(@, d)]
    /\ UNCHANGED <<units, remaining_units, execution_order, warnings, plan_pc>>
    /\ UNCHANGED <<execVars, runVars, discVars, extVars>>

\* lines 297-303: the early return for no units, else the loop's set-up
PlanStart ==
    /\ plan_pc = "discover"
    /\ IF units = {}
       THEN /\ plan_pc' = "done"
            /\ remaining_units' = {}
       ELSE /\ plan_pc' = "loop"
            /\ remaining_units' = units
    /\ execution_order' = <<>>
    /\ UNCHANGED <<units, dependencies, warnings>>
    /\ UNCHANGED <<execVars, runVars, discVars, extVars>>

\* lines 305-320: one iteration of `while remaining_units`
PlanIterate ==
    /\ plan_pc = "loop"
    /\ remaining_units # {}
    /\ Len(execution_order) < MaxBatches
    /\ LET batch == NextBatch(dependencies, remaining_units)
       IN /\ execution_order' = Append(execution_order, batch)
          /\ remaining_units' = remaining_units \ batch
    /\ warnings' = IF ReadyUnits(dependencies, remaining_units) = {}
                   THEN warnings + 1 ELSE warnings
    /\ UNCHANGED <<units, dependencies, plan_pc>>
    /\ UNCHANGED <<execVars, runVars, discVars, extVars>>

\* lines 305, 322: the loop condition fails and execution_order is returned
PlanReturn ==
    /\ plan_pc = "loop"
    /\ remaining_units = {}
    /\ plan_pc' = "done"
    /\ UNCHANGED <<units, dependencies, remaining_units, execution_order,
                   warnings>>
    /\ UNCHANGED <<execVars, runVars, discVars, extVars>>

NextPlan ==
    \/ \E p \in Paths : DiscoverUnit(p)
    \/ \E p \in Paths, d \in Paths : DeclareDependency(p, d)
    \/ PlanStart
    \/ PlanIterate
    \/ PlanReturn


(***************************************************************************)
(* execute_stack_command (stack_manager.py 391-455) and what it reads of   *)
(* run_command (utils.py 156-205)                                          *)
(***************************************************************************)

\* Optional[str] = None
None == "None"

\* Optional[datetime] = None (clock readings are 0 and above)
NoTime == -1

\* The local `execution` before line 405 binds it.
NoExecution ==
    [status |-> None, started_at |-> NoTime, completed_at |-> NoTime,
     error_message |-> None, dry_run |-> FALSE]

\* config.terragrunt.binary_path
binary_path == "terragrunt"

\* The command strings a caller passes (free-form in the code).
Commands == {"plan", "apply", "destroy"}

\* Captured output, as far as the callers tell it apart: empty or not. What
\* the external tool writes is free text, the runner's own words included.
Stdouts == {"", "out"}
Stderrs == {"", "err", "Command timed out"}

\* Return codes of a process that ran to its end.
ExitCodes == {0, 1}

\* The most unit status probes one stack creation runs (units with a cache).
MaxUnitProbes == 2

\* The last clock second of the model.
MaxClock == 2

\* utils.py 197-198: the process ended within the timeout
ProcessResults ==
    [exit_code : ExitCodes, stdout : Stdouts, stderr : Stderrs]

\* utils.py 200-202: asyncio.TimeoutError
TimeoutResult ==
    [exit_code |-> -1, stdout |-> "", stderr |-> "Command timed out"]

\* utils.py 203-205: any other Exception, e.g. the binary cannot be launched
LaunchErrorResult ==
    [exit_code |-> -1, stdout |-> "", stderr |-> "launch error"]

\* Every tuple run_command can return.
RunCommandResults == ProcessResults \cup {TimeoutResult, LaunchErrorResult}

\* A slip: the flag is not passed on.
StackCommandNoFlag(cmd, dry) == <<binary_path, "stack", "run", cmd>>

\* lines 421-424: the argv of the stack command
StackCommand(cmd, dry) ==
    <<binary_path, "stack", "run">>
        \o (IF dry THEN <<"--dry-run">> ELSE <<>>)
        \o <<cmd>>

\* lines 329-331: the argv of the stack status probe
StackStatusProbe == <<binary_path, "stack", "run", "state", "list">>

\* lines 355-357: the argv of a unit status probe
UnitStatusProbe == <<binary_path, "run", "state", "list">>

\* A slip: a failed command leaves the status as it was.
FinalStatusOnlySuccess(exit_code) ==
    IF exit_code = 0 THEN "deployed" ELSE "applying"

\* lines 439-442: the status after the command returned
FinalStatus(exit_code) ==
    IF exit_code = 0 THEN "deployed" ELSE "failed"

\* A slip: stderr is recorded whatever the exit code.
ErrorMessageAlways(exit_code, stderr, old) == stderr

\* lines 439-443: error_message after the command returned
ErrorMessage(exit_code, stderr, old) ==
    IF exit_code = 0 THEN old ELSE stderr

\* A slip: parsing the output can raise inside the try block.
RaisingStepsWithParse == {"awaiting", "parse"}

\* lines 419-448: the positions of the try block at which an Exception can be
\* raised: only the awaited run_command (whose own handlers format the
\* command, utils.py 201 and 204); the other statements assign fields and
\* scan strings.
RaisingSteps == {"awaiting"}

\* The positions of the coroutine.
ExecPositions ==
    {"idle", "create_stack", "stack_ready", "try", "run", "awaiting",
     "set_completed", "set_status", "parse", "return", "handler",
     "returned", "raised"}

ExecInit ==
    /\ exec_pc = "idle"
    /\ command = None
    /\ dry_run = FALSE
    /\ execution = NoExecution
    /\ run_state = "not_called"
    /\ cmd_result = None
    /\ runner_calls = <<>>
    /\ completed_at_writes = 0
    /\ now = 0

\* The number of unit status probes handed to the runner so far.
UnitProbesRun ==
    Cardinality({i \in 1..Len(runner_calls) :
                    runner_calls[i] = UnitStatusProbe})

\* The clock moves while the coroutine is suspended in an await.
Tick ==
    /\ exec_pc \in {"create_stack", "awaiting"}
    /\ now < MaxClock
    /\ now' = now + 1
    /\ UNCHANGED <<run_state, exec_pc, command, dry_run, execution,
                   cmd_result, runner_calls, completed_at_writes>>
    /\ UNCHANGED <<planVars, runVars, discVars, extVars>>

\* lines 391-401: the call, up to the await of _create_stack_from_path
ExecuteStackCommand(cmd, dry) ==
    /\ exec_pc = "idle"
    /\ command' = cmd
    /\ dry_run' = dry
    /\ exec_pc' = "create_stack"
    /\ UNCHANGED <<run_state, execution, cmd_result, runner_calls,
                   completed_at_writes, now>>
    /\ UNCHANGED <<planVars, runVars, discVars, extVars>>

\* lines 205-239, 345-360 under line 401: _create_stack_from_path probes the
\* status of a unit that has a cache directory
ProbeUnitStatus ==
    /\ exec_pc = "create_stack"
    /\ UnitProbesRun < MaxUnitProbes
    /\ runner_calls' = Append(runner_calls, UnitStatusProbe)
    /\ UNCHANGED <<run_state, exec_pc, command, dry_run, execution,
                   cmd_result, completed_at_writes, now>>
    /\ UNCHANGED <<planVars, runVars, discVars, extVars>>

\* lines 133-147, 324-334 under line 401: the stack exists; after its units,
\* its own status is probed and the stack is returned
CreateStackFound ==
    /\ exec_pc = "create_stack"
    /\ runner_calls' = Append(runner_calls, StackStatusProbe)
    /\ exec_pc' = "stack_ready"
    /\ UNCHANGED <<run_state, command, dry_run, execution, cmd_result,
                   completed_at_writes, now>>
    /\ UNCHANGED <<planVars, runVars, discVars, extVars>>

\* lines 118-119, 149-151, 402-403: no stack.hcl (or stack creation failed):
\* "Stack not found" is raised to the caller and no StackExecution exists
CreateStackMissing ==
    /\ exec_pc = "create_stack"
    /\ exec_pc' = "raised"
    /\ UNCHANGED <<run_state, command, dry_run, execution, cmd_result,
                   runner_calls, completed_at_writes, now>>
    /\ UNCHANGED <<planVars, runVars, discVars, extVars>>

\* lines 405-417: the StackExecution is constructed
NewExecution ==
    /\ exec_pc = "stack_ready"
    /\ execution' = [status |-> "planning",
                     started_at |-> now,
                     completed_at |-> NoTime,
                     error_message |-> None,
                     dry_run |-> dry_run]
    /\ exec_pc' = "try"
    /\ UNCHANGED <<run_state, command, dry_run, cmd_result, runner_calls,
                   completed_at_writes, now>>
    /\ UNCHANGED <<planVars, runVars, discVars, extVars>>

\* lines 421-428: the argv and the environment are built, status = APPLYING
SetApplying ==
    /\ exec_pc = "try"
    /\ execution' = [execution EXCEPT !.status = "applying"]
    /\ exec_pc' = "run"
    /\ UNCHANGED <<run_state, command, dry_run, cmd_result, runner_calls,
                   completed_at_writes, now>>
    /\ UNCHANGED <<planVars, runVars, discVars, extVars>>

\* lines 430-435: the stack command is handed to run_command
RunCommandCall ==
    /\ exec_pc = "run"
    /\ runner_calls' = Append(runner_calls, StackCommand(command, dry_run))
    /\ run_state' = "running"
    /\ exec_pc' = "awaiting"
    /\ UNCHANGED <<command, dry_run, execution, cmd_result,
                   completed_at_writes, now>>
    /\ UNCHANGED <<planVars, runVars, discVars, extVars>>

\* line 430, utils.py 197-205: run_command returns its tuple
RunCommandReturns(r) ==
    /\ exec_pc = "awaiting"
    /\ run_state' = "returned"
    /\ cmd_result' = r
    /\ exec_pc' = "set_completed"
    /\ UNCHANGED <<command, dry_run, execution, runner_calls,
                   completed_at_writes, now>>
    /\ UNCHANGED <<planVars, runVars, discVars, extVars>>

\* line 450: an Exception raised inside the try block reaches the handler
Raise ==
    /\ exec_pc \in RaisingSteps
    /\ run_state' = IF exec_pc = "awaiting" THEN "raised" ELSE run_state
    /\ exec_pc' = "handler"
    /\ UNCHANGED <<command, dry_run, execution, cmd_result, runner_calls,
                   completed_at_writes, now>>
    /\ UNCHANGED <<planVars, runVars, discVars, extVars>>

\* line 437
SetCompletedAt ==
    /\ exec_pc = "set_completed"
    /\ execution' = [execution EXCEPT !.completed_at = now]
    /\ completed_at_writes' = completed_at_writes + 1
    /\ exec_pc' = "set_status"
    /\ UNCHANGED <<run_state, command, dry_run, cmd_result, runner_calls,
                   now>>
    /\ UNCHANGED <<planVars, runVars, discVars, extVars>>

\* lines 439-443
SetFinalStatus ==
    /\ exec_pc = "set_status"
    /\ execution' =
         [execution EXCEPT
            !.status = FinalStatus(cmd_result.exit_code),
            !.error_message =
                ErrorMessage(cmd_result.exit_code, cmd_result.stderr, @)]
    /\ exec_pc' = "parse"
    /\ UNCHANGED <<run_state, command, dry_run, cmd_result, runner_calls,
                   completed_at_writes, now>>
    /\ UNCHANGED <<planVars, runVars, discVars, extVars>>

\* line 446: unit_results is filled from the captured output (the per-unit
\* map is not part of this state)
ParseStackOutput ==
    /\ exec_pc = "parse"
    /\ exec_pc' = "return"
    /\ UNCHANGED <<run_state, command, dry_run, execution, cmd_result,
                   runner_calls, completed_at_writes, now>>
    /\ UNCHANGED <<planVars, runVars, discVars, extVars>>

\* line 448
ReturnExecution ==
    /\ exec_pc = "return"
    /\ exec_pc' = "returned"
    /\ UNCHANGED <<run_state, command, dry_run, execution, cmd_result,
                   runner_calls, completed_at_writes, now>>
    /\ UNCHANGED <<planVars, runVars, discVars, extVars>>

\* lines 450-455: the exception handler, which returns the execution
HandleException ==
    /\ exec_pc = "handler"
    /\ execution' = [execution EXCEPT !.status = "failed",
                                      !.error_message = "exception",
                                      !.completed_at = now]
    /\ completed_at_writes' = completed_at_writes + 1
    /\ exec_pc' = "returned"
    /\ UNCHANGED <<run_state, command, dry_run, cmd_result, runner_calls,
                   now>>
    /\ UNCHANGED <<planVars, runVars, discVars, extVars>>

NextExec ==
    \/ \E cmd \in Commands, dry \in BOOLEAN : ExecuteStackCommand(cmd, dry)
    \/ Tick
    \/ ProbeUnitStatus
    \/ CreateStackFound
    \/ CreateStackMissing
    \/ NewExecution
    \/ SetApplying
    \/ RunCommandCall
    \/ \E r \in RunCommandResults : RunCommandReturns(r)
    \/ Raise
    \/ SetCompletedAt
    \/ SetFinalStatus
    \/ ParseStackOutput
    \/ ReturnExecution
    \/ HandleException

(***************************************************************************)
(* run_command (utils.py 156-205) and _prepare_environment                 *)
(* (stack_manager.py 38-77)                                                *)
(***************************************************************************)

\* The result before run_command has returned one.
NoResult == [exit_code |-> -2, stdout |-> "", stderr |-> ""]

\* A dict without keys: env_vars = None and env_vars = {} take the same
\* branch of line 167.
EmptyEnv == [k \in {} |-> ""]

\* The environment the server process is started with.
BaseEnviron == [k \in {"PATH"} |-> "/usr/bin"]

\* What the shell that starts the server may have exported besides PATH.
AmbientExports ==
    {<<"GOOGLE_CLOUD_PROJECT", "ambient-project">>,
     <<"TG_NON_INTERACTIVE", "false">>}

\* config.gcp.project_id and config.gcp.credentials_path
ProjectIds == {None, "config-project"}
CredentialsPaths == {None, "/etc/creds.json"}

\* stack_manager.py 38-77: the overlay of the status probes and of the stack
\* command. The region, zone and remaining TG_ keys are set in the same way
\* as the three keys kept here.
PrepareEnvironment(project_id, credentials_path) ==
    LET keys ==
            (IF credentials_path # None
                THEN {"GOOGLE_APPLICATION_CREDENTIALS"} ELSE {})
            \cup (IF project_id # None THEN {"GOOGLE_CLOUD_PROJECT"} ELSE {})
            \cup {"TG_NON_INTERACTIVE"}
    IN  [k \in keys |->
            CASE k = "GOOGLE_APPLICATION_CREDENTIALS" -> credentials_path
              [] k = "GOOGLE_CLOUD_PROJECT" -> project_id
              [] OTHER -> "true"]

\* The overlays a caller passes: none, or the prepared environment.
Overlays ==
    {EmptyEnv}
        \cup {PrepareEnvironment(p, c) :
                p \in ProjectIds, c \in CredentialsPaths}

\* utils.py 166-168: env = os.environ.copy(); env.update(env_vars)
SubprocessEnv(ambient, overlay) ==
    [k \in DOMAIN ambient \cup DOMAIN overlay |->
        IF k \in DOMAIN overlay THEN overlay[k] ELSE ambient[k]]

\* A slip: env is os.environ itself, so the update lands in it.
EnvironAfterUpdateAliased(ambient, overlay) ==
    [k \in DOMAIN ambient \cup DOMAIN overlay |->
        IF k \in DOMAIN overlay THEN overlay[k] ELSE ambient[k]]

\* utils.py 166-168: os.environ after the update of the copy
EnvironAfterUpdate(ambient, overlay) == ambient

\* A slip: the timeout handler lets the exception go on.
TimeoutOutcomeRaises == [raised |-> TRUE, result |-> NoResult]

\* utils.py 200-202: asyncio.TimeoutError is caught and a tuple is returned
\* (the process was launched, so the command is a list of str and the
\* handler's ' '.join(command) succeeds)
TimeoutOutcome == [raised |-> FALSE, result |-> TimeoutResult]

\* utils.py 203-205: create_subprocess_exec raised. The handler returns a
\* tuple, unless ' '.join(command) raises in turn on a command that holds a
\* non-str item.
LaunchErrorOutcome(ok) ==
    IF ok THEN [raised |-> FALSE, result |-> LaunchErrorResult]
          ELSE [raised |-> TRUE, result |-> NoResult]

\* utils.py 197-198: the process ended and its output was read
ExitOutcome(r) == [raised |-> FALSE, result |-> r]

\* What a caller that awaits run_command gets: a tuple or an exception.
RunCommandOutcome(kind, r, ok) ==
    CASE kind = "exit" -> ExitOutcome(r)
      [] kind = "timeout" -> TimeoutOutcome
      [] OTHER -> LaunchErrorOutcome(ok)

RunInit ==
    /\ run_pc = "idle"
    /\ argv_ok = TRUE
    /\ env_vars = EmptyEnv
    /\ os_environ = BaseEnviron
    /\ environ_at_call = BaseEnviron
    /\ child_env = EmptyEnv
    /\ proc = "none"
    /\ run_event = "none"
    /\ run_result = NoResult

\* The environment the server inherits, before the call.
Setenv(k, v) ==
    /\ run_pc = "idle"
    /\ k \notin DOMAIN os_environ
    /\ os_environ' = [x \in DOMAIN os_environ \cup {k} |->
                        IF x = k THEN v ELSE os_environ[x]]
    /\ UNCHANGED <<run_pc, argv_ok, env_vars, environ_at_call, child_env,
                   proc, run_event, run_result>>
    /\ UNCHANGED <<planVars, execVars, discVars, extVars>>

\* utils.py 156-168: the call, up to the try block
RunCommand(ok, overlay) ==
    /\ run_pc = "idle"
    /\ argv_ok' = ok
    /\ env_vars' = overlay
    /\ environ_at_call' = os_environ
    /\ os_environ' = EnvironAfterUpdate(os_environ, overlay)
    /\ child_env' = SubprocessEnv(os_environ, overlay)
    /\ run_pc' = "launch"
    /\ UNCHANGED <<proc, run_event, run_result>>
    /\ UNCHANGED <<planVars, execVars, discVars, extVars>>

\* utils.py 172-178: the subprocess is created with env
CreateSubprocess ==
    /\ run_pc = "launch"
    /\ argv_ok
    /\ proc' = "running"
    /\ run_pc' = "wait"
    /\ UNCHANGED <<argv_ok, env_vars, os_environ, environ_at_call,
                   child_env, run_event, run_result>>
    /\ UNCHANGED <<planVars, execVars, discVars, extVars>>

\* utils.py 172, 203-205: create_subprocess_exec raises (binary not found,
\* working directory missing, a non-str item in the command)
CreateSubprocessFails ==
    /\ run_pc = "launch"
    /\ run_event' = "launch_error"
    /\ run_result' = RunCommandOutcome("launch_error", NoResult, argv_ok).result
    /\ run_pc' = IF RunCommandOutcome("launch_error", NoResult, argv_ok).raised
                    THEN "raised" ELSE "returned"
    /\ UNCHANGED <<argv_ok, env_vars, os_environ, environ_at_call,
                   child_env, proc>>
    /\ UNCHANGED <<planVars, execVars, discVars, extVars>>

\* utils.py 180-198: the process ends within the timeout and communicate()
\* hands over its output
CommunicateReturns(r) ==
    /\ run_pc = "wait"
    /\ proc = "running"
    /\ proc' = "exited"
    /\ run_event' = "exit"
    /\ run_result' = RunCommandOutcome("exit", r, argv_ok).result
    /\ run_pc' = "returned"
    /\ UNCHANGED <<argv_ok, env_vars, os_environ, environ_at_call,
                   child_env>>
    /\ UNCHANGED <<planVars, execVars, discVars, extVars>>

\* utils.py 180-182, 200-202: wait_for cancels communicate() and raises
\* asyncio.TimeoutError; nothing signals the process
WaitForTimesOut ==
    /\ run_pc = "wait"
    /\ proc = "running"
    /\ run_event' = "timeout"
    /\ run_result' = RunCommandOutcome("timeout", NoResult, argv_ok).result
    /\ run_pc' = IF RunCommandOutcome("timeout", NoResult, argv_ok).raised
                    THEN "raised" ELSE "returned"
    /\ UNCHANGED <<argv_ok, env_vars, os_environ, environ_at_call,
                   child_env, proc>>
    /\ UNCHANGED <<planVars, execVars, discVars, extVars>>

\* The process left behind by a timeout ends by itself, later.
AbandonedProcessExits ==
    /\ run_pc \in {"returned", "raised"}
    /\ proc = "running"
    /\ proc' = "exited"
    /\ UNCHANGED <<run_pc, argv_ok, env_vars, os_environ, environ_at_call,
                   child_env, run_event, run_result>>
    /\ UNCHANGED <<planVars, execVars, discVars, extVars>>

NextRun ==
    \/ \E e \in AmbientExports : Setenv(e[1], e[2])
    \/ \E ok \in BOOLEAN, overlay \in Overlays : RunCommand(ok, overlay)
    \/ CreateSubprocess
    \/ CreateSubprocessFails
    \/ \E r \in ProcessResults : CommunicateReturns(r)
    \/ WaitForTimesOut
    \/ AbandonedProcessExits

(***************************************************************************)
(* discover_resources (terragrunt_manager.py 87-209), discover_stacks and  *)
(* what it calls (stack_manager.py 79-245, 324-369), parse_terragrunt_path *)
(* (utils.py 43-91)                                                        *)
(***************************************************************************)

\* The name of the build-cache directory.
CacheName == ".terragrunt-cache"

\* os.path.join(self.root_path, "live"), relative to root_path
LivePath == <<"live">>

\* The directories a repository may hold, as lists of path segments relative
\* to root_path: two stack directories, one inside the other, with two units
\* below them, a third stack with one unit, and the cache directories that
\* terragrunt leaves in a unit, which hold a copy of the unit's files.
DevStack == <<"live", "acct", "dev">>
DevProj == <<"live", "acct", "dev", "proj">>
DevCompute == <<"live", "acct", "dev", "proj", "compute">>
DevWidget == <<"live", "acct", "dev", "proj", "widget">>
ProdProj == <<"live", "acct", "prod", "proj">>
ProdCompute == <<"live", "acct", "prod", "proj", "compute">>

\* os.path.join(full_path, ".terragrunt-cache")
CacheDir(d) == Append(d, CacheName)

\* The copy of the unit inside its cache directory.
CachedModule(d) == CacheDir(d) \o <<"mod">>

UnitDirs == {DevCompute, DevWidget, ProdCompute}
StackDirs == {DevStack, DevProj, ProdProj}
CachedUnitDirs == {DevCompute, ProdCompute}
UnreadableUnitDirs == {ProdCompute}

\* The order in which os.walk lists the directories (top-down; the order of
\* the entries of one directory is the order of this list).
TreeOrder ==
    << LivePath,
       <<"live", "acct">>,
       DevStack,
       DevProj,
       DevCompute,
       CacheDir(DevCompute),
       CachedModule(DevCompute),
       DevWidget,
       <<"live", "acct", "prod">>,
       ProdProj,
       ProdCompute,
       CacheDir(ProdCompute),
       CachedModule(ProdCompute) >>

\* The values of the argument environment.
EnvironmentFilters == {None, "dev", "prod"}

\* models.py 11-21
ResourceTypes ==
    {"folder", "project", "vpc-network", "private-service-access",
     "compute", "sqlserver", "bigquery", "secrets"}

\* utils.py 68
Regions == {"europe-west2", "us-central1", "us-east1", "asia-southeast1"}

\* A tree without directories.
EmptyFs == [d \in {} |-> {}]

\* The file names of directory d (none when d does not exist).
Files(f, d) == IF d \in DOMAIN f THEN f[d] ELSE {}

\* os.makedirs(d)
MakeDirs(f, d) ==
    [x \in DOMAIN f \cup {SubSeq(d, 1, i) : i \in 1..Len(d)} |->
        IF x \in DOMAIN f THEN f[x] ELSE {}]

\* A file name is created in d.
AddFile(f, d, name) ==
    [x \in DOMAIN MakeDirs(f, d) |->
        IF x = d THEN MakeDirs(f, d)[x] \cup {name} ELSE MakeDirs(f, d)[x]]

\* The dirs of the triple os.walk yields for d, in listing order.
Children(f, d) ==
    LET IsChild(c) ==
            /\ c \in DOMAIN f
            /\ Len(c) = Len(d) + 1
            /\ SubSeq(c, 1, Len(d)) = d
    IN  SelectSeq(TreeOrder, IsChild)

\* terragrunt_manager.py 99, stack_manager.py 94 and 195:
\* ".terragrunt-cache" in root. No other segment of the tree contains the
\* name, so the substring test is a test of the segments.
InCachePath(d) == \E i \in 1..Len(d) : d[i] = CacheName

\* A slip: the cache directory stays in dirs.
PrunedDirsNone(dirs) == dirs

\* terragrunt_manager.py 103-104, stack_manager.py 97-98 and 198-199:
\* dirs.remove(".terragrunt-cache")
PrunedDirs(dirs) ==
    LET Kept(c) == c[Len(c)] # CacheName
    IN  SelectSeq(dirs, Kept)

\* The dirs os.walk descends into after the loop body ran for root.
Descend(f, root) ==
    IF InCachePath(root) THEN Children(f, root)
                         ELSE PrunedDirs(Children(f, root))

\* utils.py 48-55: the result when nothing is parsed. An absent
\* resource_name is the empty list; a present one is the list of the
\* segments that the code joins with "/".
NoComponents ==
    [account |-> None, environment |-> None, project |-> None,
     region |-> None, resource_type |-> None, resource_name |-> <<>>]

\* utils.py 43-91, on Path(path).parts
ParseTerragruntPath(parts) ==
    IF Len(parts) < 4 \/ parts[1] # "live"
    THEN NoComponents
    ELSE
      LET n == Len(parts)
          base == [NoComponents EXCEPT !.account = parts[2],
                                       !.environment = parts[3],
                                       !.project = parts[4]]
      IN  IF n < 5 THEN base
          ELSE IF parts[5] \in Regions
          THEN [base EXCEPT
                  !.region = parts[5],
                  !.resource_type = IF n >= 6 THEN parts[6] ELSE None,
                  !.resource_name =
                      IF n >= 8 THEN <<parts[7], parts[8]>>
                      ELSE IF n >= 7 THEN <<parts[7]>>
                      ELSE <<>>]
          ELSE [base EXCEPT
                  !.resource_type = parts[5],
                  !.resource_name =
                      IF n >= 7 THEN <<parts[6], parts[7]>>
                      ELSE IF n >= 6 THEN <<parts[6]>>
                      ELSE <<>>]

\* What a status probe prints: nothing, white space only, or state entries.
ProbeStdouts == {"", " ", "out"}

\* str.strip() on the probe's stdout
Strip(s) == IF s = " " THEN "" ELSE s

\* The tuples of a status probe that ran to its end (the callers ignore
\* stderr).
ProbeResults ==
    [exit_code : ExitCodes, stdout : ProbeStdouts, stderr : {""}]

\* What can happen to the subprocess of a status probe.
ProbeEvents ==
    {[kind |-> "exit", r |-> x] : x \in ProbeResults}
        \cup {[kind |-> "timeout", r |-> NoResult],
              [kind |-> "launch_error", r |-> NoResult]}

\* What run_command hands to a status probe. The probe's command is built
\* from binary_path and literals: a list of str.
ProbeOutcome(ev) == RunCommandOutcome(ev.kind, ev.r, TRUE)

\* stack_manager.py 345-369, terragrunt_manager.py 183-209
GetUnitStatus(cache_exists, outcome) ==
    IF ~cache_exists THEN "not_deployed"
    ELSE IF outcome.raised THEN "unknown"
    ELSE IF outcome.result.exit_code = 0 /\ Strip(outcome.result.stdout) # ""
         THEN "deployed"
         ELSE "not_deployed"

\* stack_manager.py 324-343
GetStackStatus(outcome) ==
    IF outcome.raised THEN "unknown"
    ELSE IF outcome.result.exit_code = 0 THEN "deployed" ELSE "unknown"

\* stack_manager.py 247-266, terragrunt_manager.py 211-234: a file that
\* cannot be opened gives the empty configuration
Configuration(u, locked) == IF u \in locked THEN "empty" ELSE "content"

\* stack_manager.py 106: environment in stack.name. No segment of the tree
\* contains a filter value without being equal to it.
EnvironmentInName(env, name) == env = name

\* stack_manager.py 106, terragrunt_manager.py 111: the optional filter
NoFilter(env) == env = None

\* A slip: the walk ends at the first unit that is skipped.
AfterSkippedUnitStop(pending) == <<>>

\* terragrunt_manager.py 117, 138-142: a unit of unknown type gives None and
\* the walk goes on
AfterSkippedUnit(pending) == pending

\* A slip: the walk is started without the test.
LiveExistsUntested(f) == TRUE

\* terragrunt_manager.py 92, stack_manager.py 88: os.path.exists(live_path)
LiveExists(f) == LivePath \in DOMAIN f

\* last_probe before any unit probe.
NoProbe ==
    [path |-> <<>>, event |-> [kind |-> "none", r |-> NoResult],
     status |-> None]

DiscInit ==
    /\ fs = EmptyFs
    /\ unreadable = {}
    /\ disc_pc = "idle"
    /\ disc_mode = None
    /\ environment = None
    /\ walk = <<>>
    /\ unit_walk = <<>>
    /\ stack_path = <<>>
    /\ stack_units = <<>>
    /\ result = <<>>
    /\ probes = <<>>
    /\ last_probe = NoProbe
    /\ visited = {}
    /\ live_warnings = 0

\* ---- the repository before the call

\* An empty live directory is created.
MakeLive ==
    /\ disc_pc = "idle"
    /\ LivePath \notin DOMAIN fs
    /\ fs' = MakeDirs(fs, LivePath)
    /\ UNCHANGED <<unreadable, disc_pc, disc_mode, environment, walk,
                   unit_walk, stack_path, stack_units, result, probes,
                   last_probe, visited, live_warnings>>
    /\ UNCHANGED <<planVars, execVars, runVars, extVars>>

\* A unit directory with its terragrunt.hcl is written.
AddUnit(u) ==
    /\ disc_pc = "idle"
    /\ "terragrunt.hcl" \notin Files(fs, u)
    /\ fs' = AddFile(fs, u, "terragrunt.hcl")
    /\ UNCHANGED <<unreadable, disc_pc, disc_mode, environment, walk,
                   unit_walk, stack_path, stack_units, result, probes,
                   last_probe, visited, live_warnings>>
    /\ UNCHANGED <<planVars, execVars, runVars, extVars>>

\* terragrunt initialises a unit: the cache directory appears, with a copy
\* of the unit in it.
InitUnit(u) ==
    /\ disc_pc = "idle"
    /\ "terragrunt.hcl" \in Files(fs, u)
    /\ CacheDir(u) \notin DOMAIN fs
    /\ fs' = AddFile(fs, CachedModule(u), "terragrunt.hcl")
    /\ UNCHANGED <<unreadable, disc_pc, disc_mode, environment, walk,
                   unit_walk, stack_path, stack_units, result, probes,
                   last_probe, visited, live_warnings>>
    /\ UNCHANGED <<planVars, execVars, runVars, extVars>>

\* A stack.hcl is written.
AddStack(s) ==
    /\ disc_pc = "idle"
    /\ "stack.hcl" \notin Files(fs, s)
    /\ fs' = AddFile(fs, s, "stack.hcl")
    /\ UNCHANGED <<unreadable, disc_pc, disc_mode, environment, walk,
                   unit_walk, stack_path, stack_units, result, probes,
                   last_probe, visited, live_warnings>>
    /\ UNCHANGED <<planVars, execVars, runVars, extVars>>

\* The terragrunt.hcl of a unit loses its read permission.
MakeUnreadable(u) ==
    /\ disc_pc = "idle"
    /\ "terragrunt.hcl" \in Files(fs, u)
    /\ u \notin unreadable
    /\ unreadable' = unreadable \cup {u}
    /\ UNCHANGED <<fs, disc_pc, disc_mode, environment, walk, unit_walk,
                   stack_path, stack_units, result, probes, last_probe,
                   visited, live_warnings>>
    /\ UNCHANGED <<planVars, execVars, runVars, extVars>>

\* ---- discover_resources

\* terragrunt_manager.py 87-97: the call, up to the first os.walk triple
DiscoverResources(env) ==
    /\ disc_pc = "idle"
    /\ disc_mode' = "resources"
    /\ environment' = env
    /\ IF LiveExists(fs)
          THEN /\ walk' = <<LivePath>>
               /\ disc_pc' = "walk"
               /\ UNCHANGED live_warnings
          ELSE /\ live_warnings' = live_warnings + 1
               /\ disc_pc' = "done"
               /\ UNCHANGED walk
    /\ UNCHANGED <<fs, unreadable, unit_walk, stack_path, stack_units,
                   result, probes, last_probe, visited>>
    /\ UNCHANGED <<planVars, execVars, runVars, extVars>>

\* terragrunt_manager.py 97-120 with 124-209: one iteration of the walk; ev
\* is what happens to the status probe, if one is run
ResourceWalkStep(ev) ==
    /\ disc_pc = "walk"
    /\ disc_mode = "resources"
    /\ walk # <<>>
    /\ LET root == Head(walk)
           components == ParseTerragruntPath(root)
           wanted ==
               /\ ~InCachePath(root)
               /\ "terragrunt.hcl" \in Files(fs, root)
               /\ NoFilter(environment)
                    \/ components.environment = environment
               /\ components.resource_type # None
           known == wanted /\ components.resource_type \in ResourceTypes
           probed == known /\ CacheDir(root) \in DOMAIN fs
           status == GetUnitStatus(probed, ProbeOutcome(ev))
           pending == Descend(fs, root) \o Tail(walk)
       IN  /\ visited' = visited \cup {root}
           /\ walk' = IF wanted /\ ~known THEN AfterSkippedUnit(pending)
                                          ELSE pending
           /\ result' =
                IF known
                THEN Append(result,
                        [path |-> root,
                         type |-> components.resource_type,
                         environment |-> components.environment,
                         status |-> status,
                         configuration |-> Configuration(root, unreadable)])
                ELSE result
           /\ probes' = IF probed THEN Append(probes, root) ELSE probes
           /\ last_probe' =
                IF probed
                THEN [path |-> root, event |-> ev, status |-> status]
                ELSE last_probe
    /\ UNCHANGED <<fs, unreadable, disc_pc, disc_mode, environment,
                   unit_walk, stack_path, stack_units, live_warnings>>
    /\ UNCHANGED <<planVars, execVars, runVars, extVars>>

\* ---- discover_stacks

\* stack_manager.py 79-93: the call, up to the first os.walk triple
DiscoverStacks(env, enabled) ==
    /\ disc_pc = "idle"
    /\ environment' = env
    /\ IF ~enabled
          THEN /\ disc_mode' = "stacks_disabled"
               /\ disc_pc' = "done"
               /\ UNCHANGED <<walk, live_warnings>>
          ELSE /\ disc_mode' = "stacks"
               /\ IF LiveExists(fs)
                     THEN /\ walk' = <<LivePath>>
                          /\ disc_pc' = "walk"
                          /\ UNCHANGED live_warnings
                     ELSE /\ live_warnings' = live_warnings + 1
                          /\ disc_pc' = "done"
                          /\ UNCHANGED walk
    /\ UNCHANGED <<fs, unreadable, unit_walk, stack_path, stack_units,
                   result, probes, last_probe, visited>>
    /\ UNCHANGED <<planVars, execVars, runVars, extVars>>

\* stack_manager.py 93-101: an iteration of the walk for a directory that
\* is inside a cache or holds no stack.hcl
StackWalkStep ==
    /\ disc_pc = "walk"
    /\ disc_mode = "stacks"
    /\ walk # <<>>
    /\ InCachePath(Head(walk)) \/ "stack.hcl" \notin Files(fs, Head(walk))
    /\ visited' = visited \cup {Head(walk)}
    /\ walk' = Descend(fs, Head(walk)) \o Tail(walk)
    /\ UNCHANGED <<fs, unreadable, disc_pc, disc_mode, environment,
                   unit_walk, stack_path, stack_units, result, probes,
                   last_probe, live_warnings>>
    /\ UNCHANGED <<planVars, execVars, runVars, extVars>>

\* stack_manager.py 101-105, 113-126, 189-194: a stack.hcl is found and
\* _create_stack_from_path starts the walk of the stack's directory
CreateStackFromPath ==
    /\ disc_pc = "walk"
    /\ disc_mode = "stacks"
    /\ walk # <<>>
    /\ ~InCachePath(Head(walk))
    /\ "stack.hcl" \in Files(fs, Head(walk))
    /\ visited' = visited \cup {Head(walk)}
    /\ stack_path' = Head(walk)
    /\ stack_units' = <<>>
    /\ unit_walk' = <<Head(walk)>>
    /\ disc_pc' = "stack_units"
    /\ UNCHANGED <<fs, unreadable, disc_mode, environment, walk, result,
                   probes, last_probe, live_warnings>>
    /\ UNCHANGED <<planVars, execVars, runVars, extVars>>

\* stack_manager.py 194-213 with 217-245, 345-369: one iteration of the walk
\* of _discover_stack_units; ev is what happens to the status probe, if one
\* is run
UnitWalkStep(ev) ==
    /\ disc_pc = "stack_units"
    /\ unit_walk # <<>>
    /\ LET root == Head(unit_walk)
           is_unit ==
               /\ ~InCachePath(root)
               /\ ~(root = stack_path /\ "stack.hcl" \in Files(fs, root))
               /\ "terragrunt.hcl" \in Files(fs, root)
           probed == is_unit /\ CacheDir(root) \in DOMAIN fs
           status == GetUnitStatus(probed, ProbeOutcome(ev))
       IN  /\ visited' = visited \cup {root}
           /\ unit_walk' = Descend(fs, root) \o Tail(unit_walk)
           /\ stack_units' =
                IF is_unit
                THEN Append(stack_units,
                        [path |-> root,
                         status |-> status,
                         configuration |-> Configuration(root, unreadable)])
                ELSE stack_units
           /\ probes' = IF probed THEN Append(probes, root) ELSE probes
           /\ last_probe' =
                IF probed
                THEN [path |-> root, event |-> ev, status |-> status]
                ELSE last_probe
    /\ UNCHANGED <<fs, unreadable, disc_pc, disc_mode, environment, walk,
                   stack_path, result, live_warnings>>
    /\ UNCHANGED <<planVars, execVars, runVars, extVars>>

\* stack_manager.py 128-147, 324-343, 106-107: the units are complete; the
\* status of the stack is probed (ev), the stack is built and, if it passes
\* the filter, appended; the outer walk goes on below the stack directory
StackCreated(ev) ==
    /\ disc_pc = "stack_units"
    /\ unit_walk = <<>>
    /\ result' =
         IF NoFilter(environment)
              \/ EnvironmentInName(environment, stack_path[Len(stack_path)])
         THEN Append(result,
                 [path |-> stack_path,
                  name |-> stack_path[Len(stack_path)],
                  units |-> stack_units,
                  status |-> GetStackStatus(ProbeOutcome(ev))])
         ELSE result
    /\ walk' = Descend(fs, stack_path) \o Tail(walk)
    /\ stack_path' = <<>>
    /\ stack_units' = <<>>
    /\ disc_pc' = "walk"
    /\ UNCHANGED <<fs, unreadable, disc_mode, environment, unit_walk,
                   probes, last_probe, visited, live_warnings>>
    /\ UNCHANGED <<planVars, execVars, runVars, extVars>>

\* terragrunt_manager.py 122, stack_manager.py 111: the walk is over
DiscoverReturn ==
    /\ disc_pc = "walk"
    /\ walk = <<>>
    /\ disc_pc' = "done"
    /\ UNCHANGED <<fs, unreadable, disc_mode, environment, walk, unit_walk,
                   stack_path, stack_units, result, probes, last_probe,
                   visited, live_warnings>>
    /\ UNCHANGED <<planVars, execVars, runVars, extVars>>

NextDisc ==
    \/ MakeLive
    \/ \E u \in UnitDirs : AddUnit(u)
    \/ \E u \in CachedUnitDirs : InitUnit(u)
    \/ \E s \in StackDirs : AddStack(s)
    \/ \E u \in UnreadableUnitDirs : MakeUnreadable(u)
    \/ \E env \in EnvironmentFilters : DiscoverResources(env)
    \/ \E ev \in ProbeEvents : ResourceWalkStep(ev)
    \/ \E env \in EnvironmentFilters, enabled \in BOOLEAN :
            DiscoverStacks(env, enabled)
    \/ StackWalkStep
    \/ CreateStackFromPath
    \/ \E ev \in ProbeEvents : UnitWalkStep(ev)
    \/ \E ev \in ProbeEvents : StackCreated(ev)
    \/ DiscoverReturn

(***************************************************************************)
(* parse_terragrunt_path and build_terragrunt_path (utils.py 43-113)       *)
(***************************************************************************)

\* The longest path handed to the parser, in segments.
MaxPathLen == 8

\* The segments a path is made of: the root marker, a region of the
\* allow-list and a name that is neither.
PathSegments == {"live", "europe-west2", "a"}

\* spec.md 55, 120: live/<account>/<environment>/<project>/[<region>/]
\* <resourceType>[/<name segment>...]
WellFormedPath(parts) ==
    /\ Len(parts) >= 5
    /\ parts[1] = "live"
    /\ parts[5] \in Regions => Len(parts) >= 6

\* utils.py 106-113: "/".join of a list holding None raises TypeError
BuildRaises(c) ==
    None \in {c.account, c.environment, c.project, c.resource_type}

\* utils.py 94-113, on segments: resource_name "a/b" is the segments a, b
BuildTerragruntPath(c) ==
    <<"live", c.account, c.environment, c.project>>
        \o (IF c.region # None THEN <<c.region>> ELSE <<>>)
        \o <<c.resource_type>>
        \o c.resource_name

PathInit ==
    /\ path_parts = <<>>
    /\ parsed = NoComponents
    /\ built_path = <<>>
    /\ path_pc = "input"

\* The caller writes the path, a segment at a time.
AppendSegment(s) ==
    /\ path_pc = "input"
    /\ Len(path_parts) < MaxPathLen
    /\ path_parts' = Append(path_parts, s)
    /\ UNCHANGED <<parsed, built_path, path_pc>>
    /\ UNCHANGED <<coreVars, othersPath>>

\* utils.py 43-91
ParsePath ==
    /\ path_pc = "input"
    /\ parsed' = ParseTerragruntPath(path_parts)
    /\ path_pc' = "parsed"
    /\ UNCHANGED <<path_parts, built_path>>
    /\ UNCHANGED <<coreVars, othersPath>>

\* utils.py 94-113, called with the fields of the parsed dict
BuildPath ==
    /\ path_pc = "parsed"
    /\ ~BuildRaises(parsed)
    /\ built_path' = BuildTerragruntPath(parsed)
    /\ path_pc' = "built"
    /\ UNCHANGED <<path_parts, parsed>>
    /\ UNCHANGED <<coreVars, othersPath>>

\* utils.py 113: the join raises on a field that is None
BuildPathRaises ==
    /\ path_pc = "parsed"
    /\ BuildRaises(parsed)
    /\ path_pc' = "raised"
    /\ UNCHANGED <<path_parts, parsed, built_path>>
    /\ UNCHANGED <<coreVars, othersPath>>

NextPath ==
    \/ \E s \in PathSegments : AppendSegment(s)
    \/ ParsePath
    \/ BuildPath
    \/ BuildPathRaises

(***************************************************************************)
(* _get_resource_dependencies (terragrunt_manager.py 236-270) and          *)
(* _get_unit_dependencies (stack_manager.py 268-293)                       *)
(***************************************************************************)

\* The most leading "../" of one config_path.
MaxUps == 4

\* The most dependency blocks of one terragrunt.hcl.
MaxRefs == 2

\* What follows the leading "../" of a config_path.
RefTails == {<<"a">>, <<"b", "c">>}

\* k times ".."
Ups(k) == [i \in 1..k |-> ".."]

\* The config_path values of the dependency blocks a file may hold, as
\* segments: relative references, and one that does not begin with "../".
ConfigPaths ==
    {Ups(k) \o t : k \in 1..MaxUps, t \in RefTails} \cup {<<"other">>}

\* str.startswith("../")
StartsWithUp(ref) == ref # <<>> /\ ref[1] = ".."

\* posixpath.normpath on segments: a ".." takes back the segment before it;
\* with nothing to take back it is dropped at the root of an absolute path
\* and kept in a relative one. The empty relative path is ".".
RECURSIVE NormInto(_, _, _)
NormInto(acc, segs, absolute) ==
    IF segs = <<>> THEN acc
    ELSE LET s == Head(segs)
             next ==
                 IF s # ".." THEN Append(acc, s)
                 ELSE IF acc # <<>> /\ acc[Len(acc)] # ".."
                      THEN SubSeq(acc, 1, Len(acc) - 1)
                 ELSE IF absolute THEN acc
                 ELSE Append(acc, "..")
         IN  NormInto(next, Tail(segs), absolute)

NormPath(segs, absolute) ==
    LET n == NormInto(<<>>, segs, absolute)
    IN  IF n = <<>> /\ ~absolute THEN <<".">> ELSE n

\* Length of the longest common prefix of two lists of segments.
RECURSIVE CommonPrefix(_, _)
CommonPrefix(a, b) ==
    IF a = <<>> \/ b = <<>> \/ Head(a) # Head(b) THEN 0
    ELSE 1 + CommonPrefix(Tail(a), Tail(b))

\* posixpath.relpath of two absolute, normalized paths
RelPath(path, start) ==
    LET i == CommonPrefix(path, start)
        rel == Ups(Len(start) - i) \o SubSeq(path, i + 1, Len(path))
    IN  IF rel = <<>> THEN <<".">> ELSE rel

\* terragrunt_manager.py 254-265: one matched config_path
ResourceDependency(resource_path, dep_path) ==
    IF StartsWithUp(dep_path)
    THEN NormPath(resource_path \o dep_path, FALSE)
    ELSE dep_path

\* A plausible slip: the normalized path is appended as it is, absolute.
UnitDependencyNoRelpath(root_path, unit_path, dep_path) ==
    IF StartsWithUp(dep_path)
    THEN NormPath(root_path \o unit_path \o dep_path, TRUE)
    ELSE dep_path

\* stack_manager.py 279-288: one matched config_path; terragrunt_file is
\* root_path/unit_path/terragrunt.hcl (stack_manager.py 218-219)
UnitDependency(root_path, unit_path, dep_path) ==
    IF StartsWithUp(dep_path)
    THEN RelPath(NormPath(root_path \o unit_path \o dep_path, TRUE),
                 root_path)
    ELSE dep_path

DepsInit ==
    /\ dep_root = <<"repo">>
    /\ dep_unit = <<"live", "u">>
    /\ dep_refs = <<>>
    /\ resource_deps = <<>>
    /\ unit_deps = <<>>
    /\ deps_done = {}

\* The repository is checked out one directory deeper.
NestRoot ==
    /\ deps_done = {}
    /\ dep_root = <<"repo">>
    /\ dep_root' = <<"srv", "repo">>
    /\ UNCHANGED <<dep_unit, dep_refs, resource_deps, unit_deps, deps_done>>
    /\ UNCHANGED <<coreVars, othersDeps>>

\* The unit lies one directory deeper.
NestUnit ==
    /\ deps_done = {}
    /\ dep_unit = <<"live", "u">>
    /\ dep_unit' = <<"live", "u", "v">>
    /\ UNCHANGED <<dep_root, dep_refs, resource_deps, unit_deps, deps_done>>
    /\ UNCHANGED <<coreVars, othersDeps>>

\* One more dependency block in the unit's terragrunt.hcl.
AddDependencyBlock(ref) ==
    /\ deps_done = {}
    /\ Len(dep_refs) < MaxRefs
    /\ dep_refs' = Append(dep_refs, ref)
    /\ UNCHANGED <<dep_root, dep_unit, resource_deps, unit_deps, deps_done>>
    /\ UNCHANGED <<coreVars, othersDeps>>

\* terragrunt_manager.py 236-270, the file exists and is readable
GetResourceDependencies ==
    /\ "resource" \notin deps_done
    /\ resource_deps' =
          [i \in 1..Len(dep_refs) |->
              ResourceDependency(dep_unit, dep_refs[i])]
    /\ deps_done' = deps_done \cup {"resource"}
    /\ UNCHANGED <<dep_root, dep_unit, dep_refs, unit_deps>>
    /\ UNCHANGED <<coreVars, othersDeps>>

\* stack_manager.py 268-293, the file exists and is readable
GetUnitDependencies ==
    /\ "unit" \notin deps_done
    /\ unit_deps' =
          [i \in 1..Len(dep_refs) |->
              UnitDependency(dep_root, dep_unit, dep_refs[i])]
    /\ deps_done' = deps_done \cup {"unit"}
    /\ UNCHANGED <<dep_root, dep_unit, dep_refs, resource_deps>>
    /\ UNCHANGED <<coreVars, othersDeps>>

NextDeps ==
    \/ NestRoot
    \/ NestUnit
    \/ \E ref \in ConfigPaths : AddDependencyBlock(ref)
    \/ GetResourceDependencies
    \/ GetUnitDependencies

(***************************************************************************)
(* The units of a stack during execute_stack_command                       *)
(* (stack_manager.py 391-455): the command is handed to one                *)
(* `terragrunt stack run` subprocess; the program starts no unit itself    *)
(* and hands the subprocess neither execution_plan nor a barrier. The      *)
(* subprocess is taken to run a unit once the units it depends on are      *)
(* finished, which is the most the dependency blocks can make it do.       *)
(***************************************************************************)

StackRunInit ==
    /\ sr_pc = "idle"
    /\ execution_plan = <<>>
    /\ unit_state = [p \in Paths |-> "pending"]

\* stack_manager.py 398-436: the stack is built from its directory
\* (_create_stack_from_path calls _calculate_execution_order), the
\* StackExecution is created with execution_plan = stack.execution_order,
\* and the stack command is started.
StackRunStart ==
    /\ sr_pc = "idle"
    /\ plan_pc = "discover"
    /\ units # {}
    /\ execution_order' = CalculateExecutionOrder(units, dependencies)
    /\ execution_plan' = execution_order'
    /\ plan_pc' = "done"
    /\ sr_pc' = "running"
    /\ UNCHANGED <<units, dependencies, remaining_units, warnings>>
    /\ UNCHANGED unit_state
    /\ UNCHANGED <<execVars, runVars, discVars, othersStackRun>>

\* Inside the subprocess: a unit whose dependencies are finished starts.
UnitStarts(u) ==
    /\ sr_pc = "running"
    /\ u \in units
    /\ unit_state[u] = "pending"
    /\ \A i \in 1..Len(dependencies[u]) :
          dependencies[u][i] \in units
              => unit_state[dependencies[u][i]] = "finished"
    /\ unit_state' = [unit_state EXCEPT ![u] = "running"]
    /\ UNCHANGED <<sr_pc, execution_plan>>
    /\ UNCHANGED <<coreVars, othersStackRun>>

\* Inside the subprocess: a running unit succeeds or fails.
UnitFinishes(u) ==
    /\ sr_pc = "running"
    /\ unit_state[u] = "running"
    /\ unit_state' = [unit_state EXCEPT ![u] = "finished"]
    /\ UNCHANGED <<sr_pc, execution_plan>>
    /\ UNCHANGED <<coreVars, othersStackRun>>

\* stack_manager.py 431-436: run_command returns; no unit is running.
StackRunReturns ==
    /\ sr_pc = "running"
    /\ \A u \in units : unit_state[u] # "running"
    /\ sr_pc' = "returned"
    /\ UNCHANGED <<execution_plan, unit_state>>
    /\ UNCHANGED <<coreVars, othersStackRun>>

NextStackRun ==
    \/ \E p \in Paths : DiscoverUnit(p)
    \/ \E p \in Paths, d \in Paths : DeclareDependency(p, d)
    \/ StackRunStart
    \/ \E u \in Paths : UnitStarts(u)
    \/ \E u \in Paths : UnitFinishes(u)
    \/ StackRunReturns

(***************************************************************************)
(* visualize_infrastructure (server.py 669-738) with draw_resource_tree    *)
(* (terragrunt_manager.py 587-676) and get_dependency_graph                *)
(* (terragrunt_manager.py 813-870)                                         *)
(***************************************************************************)

\* How often the repository changes while one request is served.
MaxRepoChanges == 1

\* server.py 672: the values the branches tell apart, and one other
VisualizationTypes == {"tree", "hierarchy", "dag", "dependencies", "other"}

\* server.py 674
OutputFormats == {"ascii", "dot", "mermaid", "json"}

\* The exit codes of a find command: success, failure, run_command's -1.
FindExitCodes == {0, 1, -1}

\* No find command has reported yet.
NotSeen == -1

\* server.py 691: the format handed to draw_resource_tree
TreeFormat(fmt) == IF fmt = "ascii" THEN "tree" ELSE fmt

\* server.py 702: the format handed to get_dependency_graph
GraphFormat(fmt) == IF fmt = "ascii" THEN "dot" ELSE fmt

\* terragrunt_manager.py 610-614
TreeFindCommand(format, incl) ==
    <<binary_path, "find">>
        \o (IF incl THEN <<"--dependencies">> ELSE <<>>)
        \o (IF format = "json" THEN <<"--json">> ELSE <<>>)

\* terragrunt_manager.py 831-834
GraphFindCommand(format) ==
    IF format = "json"
    THEN <<binary_path, "find", "--dependencies", "--json">>
    ELSE <<binary_path, "find", "--dependencies", "--dag">>

\* server.py 689
WantsTree(vt) == vt \in {"tree", "hierarchy"}

\* server.py 700
WantsGraph(vt, incl) == vt \in {"dag", "dependencies"} \/ incl

VizInit ==
    /\ viz_pc = "idle"
    /\ visualization_type = "tree"
    /\ include_dependencies = TRUE
    /\ output_format = "ascii"
    /\ find_calls = <<>>
    /\ results = {}
    /\ repo_version = 0
    /\ tree_seen = NotSeen
    /\ graph_seen = NotSeen

\* Somebody adds, removes or edits a unit below root_path.
RepositoryChanges ==
    /\ repo_version < MaxRepoChanges
    /\ repo_version' = repo_version + 1
    /\ UNCHANGED <<viz_pc, visualization_type, include_dependencies,
                   output_format, find_calls, results, tree_seen, graph_seen>>
    /\ UNCHANGED <<coreVars, othersViz>>

\* server.py 669-687: the request arrives
VisualizeInfrastructure(vt, incl, fmt) ==
    /\ viz_pc = "idle"
    /\ visualization_type' = vt
    /\ include_dependencies' = incl
    /\ output_format' = fmt
    /\ viz_pc' = "tree"
    /\ UNCHANGED <<find_calls, results, repo_version, tree_seen, graph_seen>>
    /\ UNCHANGED <<coreVars, othersViz>>

\* server.py 689-698 with terragrunt_manager.py 587-676: the find command
\* runs; a non-zero exit code raises, and the handler returns the failure
\* (server.py 731-737).
DrawResourceTree(exit_code) ==
    /\ viz_pc = "tree"
    /\ WantsTree(visualization_type)
    /\ find_calls' =
          Append(find_calls,
                 TreeFindCommand(TreeFormat(output_format),
                                 include_dependencies))
    /\ IF exit_code = 0
       THEN /\ results' = results \cup {"tree"}
            /\ tree_seen' = repo_version
            /\ viz_pc' = "graph"
       ELSE /\ viz_pc' = "failed"
            /\ UNCHANGED <<results, tree_seen>>
    /\ UNCHANGED <<visualization_type, include_dependencies, output_format,
                   repo_version, graph_seen>>
    /\ UNCHANGED <<coreVars, othersViz>>

\* server.py 689: no tree is asked for
SkipTree ==
    /\ viz_pc = "tree"
    /\ ~WantsTree(visualization_type)
    /\ viz_pc' = "graph"
    /\ UNCHANGED <<visualization_type, include_dependencies, output_format,
                   find_calls, results, repo_version, tree_seen, graph_seen>>
    /\ UNCHANGED <<coreVars, othersViz>>

\* server.py 700-707 with terragrunt_manager.py 813-870, then the return of
\* server.py 709-729
GetDependencyGraph(exit_code) ==
    /\ viz_pc = "graph"
    /\ WantsGraph(visualization_type, include_dependencies)
    /\ find_calls' =
          Append(find_calls, GraphFindCommand(GraphFormat(output_format)))
    /\ IF exit_code = 0
       THEN /\ results' = results \cup {"dependency_graph"}
            /\ graph_seen' = repo_version
            /\ viz_pc' = "done"
       ELSE /\ viz_pc' = "failed"
            /\ UNCHANGED <<results, graph_seen>>
    /\ UNCHANGED <<visualization_type, include_dependencies, output_format,
                   repo_version, tree_seen>>
    /\ UNCHANGED <<coreVars, othersViz>>

\* server.py 700, 709-729: no graph is asked for; the handler returns
SkipGraph ==
    /\ viz_pc = "graph"
    /\ ~WantsGraph(visualization_type, include_dependencies)
    /\ viz_pc' = "done"
    /\ UNCHANGED <<visualization_type, include_dependencies, output_format,
                   find_calls, results, repo_version, tree_seen, graph_seen>>
    /\ UNCHANGED <<coreVars, othersViz>>

NextViz ==
    \/ RepositoryChanges
    \/ \E vt \in VisualizationTypes, incl \in BOOLEAN, fmt \in OutputFormats :
          VisualizeInfrastructure(vt, incl, fmt)
    \/ \E exit_code \in FindExitCodes : DrawResourceTree(exit_code)
    \/ SkipTree
    \/ \E exit_code \in FindExitCodes : GetDependencyGraph(exit_code)
    \/ SkipGraph

(***************************************************************************)
(* _parse_stack_output (stack_manager.py 457-493)                          *)
(***************************************************************************)

\* The most lines of stdout and stderr together.
MaxLines == 4

\* The units the command output names.
OutputUnits == {"web", "db"}

\* A line of output, by what the parser tests: marker is
\* `"Executing unit:" in line or "Running in" in line`, unit is group(1) of
\* the regex (None when the regex does not match, as for a line that ends
\* with the marker), text is line.strip().
OutputLines ==
    {[marker |-> TRUE, unit |-> u, text |-> "Running in"] : u \in OutputUnits}
        \cup {[marker |-> TRUE, unit |-> None, text |-> "Running in"],
              [marker |-> FALSE, unit |-> None, text |-> ""],
              [marker |-> FALSE, unit |-> None, text |-> "ok"],
              [marker |-> FALSE, unit |-> None, text |-> "Error: x"]}

\* stack_manager.py 481: "Error:" in line or "Failed:" in line
HasError(line) == line.text = "Error: x"

\* stack_manager.py 474-478
FreshResult == [status |-> "running", output |-> <<>>, errors |-> <<>>]

\* stack_manager.py 472-478: unit_results[current_unit] = {...}
AtMarker(rs, u) ==
    [x \in DOMAIN rs \cup {u} |-> IF x = u THEN FreshResult ELSE rs[x]]

\* stack_manager.py 480-485
AtLine(rs, u, line) ==
    IF HasError(line)
    THEN [rs EXCEPT ![u].errors = Append(@, line.text),
                    ![u].status = "failed"]
    ELSE [rs EXCEPT ![u].output = Append(@, line.text)]

\* stack_manager.py 487-490
MarkSuccessful(rs) ==
    [x \in DOMAIN rs |->
        IF rs[x].status = "running" /\ rs[x].errors = <<>>
        THEN [rs[x] EXCEPT !.status = "completed"]
        ELSE rs[x]]

ParseInit ==
    /\ parse_pc = "output"
    /\ stdout_lines = <<>>
    /\ stderr_lines = <<>>
    /\ lines = <<>>
    /\ current_unit = None
    /\ unit_results = [x \in {} |-> FreshResult]

\* The stack command prints one more line to stdout.
PrintStdout(line) ==
    /\ parse_pc = "output"
    /\ stderr_lines = <<>>
    /\ Len(stdout_lines) < MaxLines
    /\ stdout_lines' = Append(stdout_lines, line)
    /\ UNCHANGED <<parse_pc, stderr_lines, lines, current_unit, unit_results>>
    /\ UNCHANGED <<coreVars, othersParse>>

\* The stack command prints one more line to stderr.
PrintStderr(line) ==
    /\ parse_pc = "output"
    /\ Len(stdout_lines) + Len(stderr_lines) < MaxLines
    /\ stderr_lines' = Append(stderr_lines, line)
    /\ UNCHANGED <<parse_pc, stdout_lines, lines, current_unit, unit_results>>
    /\ UNCHANGED <<coreVars, othersParse>>

\* stack_manager.py 457-465
ParseStart ==
    /\ parse_pc = "output"
    /\ lines' = stdout_lines \o stderr_lines
    /\ parse_pc' = "scan"
    /\ UNCHANGED <<stdout_lines, stderr_lines, current_unit, unit_results>>
    /\ UNCHANGED <<coreVars, othersParse>>

\* stack_manager.py 467-485: one iteration of `for line in lines`
ParseLine ==
    /\ parse_pc = "scan"
    /\ lines # <<>>
    /\ LET line == Head(lines)
       IN  IF line.marker
           THEN IF line.unit # None
                THEN /\ current_unit' = line.unit
                     /\ unit_results' = AtMarker(unit_results, line.unit)
                ELSE UNCHANGED <<current_unit, unit_results>>
           ELSE IF current_unit # None /\ line.text # ""
                THEN /\ unit_results' =
                            AtLine(unit_results, current_unit, line)
                     /\ UNCHANGED current_unit
                ELSE UNCHANGED <<current_unit, unit_results>>
    /\ lines' = Tail(lines)
    /\ UNCHANGED <<parse_pc, stdout_lines, stderr_lines>>
    /\ UNCHANGED <<coreVars, othersParse>>

\* stack_manager.py 487-492: the units still running are marked, and the
\* map is returned
ParseReturn ==
    /\ parse_pc = "scan"
    /\ lines = <<>>
    /\ unit_results' = MarkSuccessful(unit_results)
    /\ parse_pc' = "returned"
    /\ UNCHANGED <<stdout_lines, stderr_lines, lines, current_unit>>
    /\ UNCHANGED <<coreVars, othersParse>>

NextParse ==
    \/ \E line \in OutputLines : PrintStdout(line)
    \/ \E line \in OutputLines : PrintStderr(line)
    \/ ParseStart
    \/ ParseLine
    \/ ParseReturn

(***************************************************************************)
(* plan_resource (terragrunt_manager.py 344-394), apply_resource           *)
(* (terragrunt_manager.py 396-447) and _ensure_initialized                 *)
(* (terragrunt_manager.py 481-498)                                         *)
(***************************************************************************)

\* The plan files a caller of apply_resource names, or None.
PlanFiles == {None, "tfplan"}

\* terragrunt_manager.py 491
InitCommand == <<binary_path, "run", "init", "--backend-bootstrap">>

\* terragrunt_manager.py 358-363
PlanCommand(dry) ==
    <<binary_path, "run", "plan">>
        \o (IF ~dry THEN <<"-out=tfplan">> ELSE <<>>)
        \o <<"--backend-bootstrap">>

\* terragrunt_manager.py 410-424: the plan file is appended as given in
\* every branch
ApplyCommand(plan_file) ==
    <<binary_path, "run", "apply">>
        \o (IF plan_file # None THEN <<plan_file>> ELSE <<"-auto-approve">>)
        \o <<"--backend-bootstrap">>

\* The command of the operation proper.
OperationCommand(o, arg) ==
    IF o = "plan" THEN PlanCommand(arg) ELSE ApplyCommand(arg)

\* A slip: only a positive exit code counts as a failed init, so that the
\* runner's -1 (timeout, launch error) goes through.
InitFailedPositiveOnly(r) == r.exit_code > 0

\* terragrunt_manager.py 497: if exit_code != 0
InitFailed(r) == r.exit_code # 0

\* terragrunt_manager.py 373-374: plan_resource raises on a failed plan;
\* apply_resource returns the CommandResult whatever the exit code
OperationRaises(o, r) == o = "plan" /\ r.exit_code # 0

OpInit ==
    /\ op_pc = "idle"
    /\ op = None
    /\ op_arg = None
    /\ dir_exists = FALSE
    /\ has_cache = FALSE
    /\ cache_found = FALSE
    /\ op_calls = <<>>
    /\ init_result = NoResult
    /\ op_result = NoResult

\* The resource directory is created below root_path.
CreateResourceDir ==
    /\ op_pc = "idle"
    /\ ~dir_exists
    /\ dir_exists' = TRUE
    /\ UNCHANGED <<op_pc, op, op_arg, has_cache, cache_found, op_calls,
                   init_result, op_result>>
    /\ UNCHANGED <<coreVars, othersOp>>

\* An earlier run has left .terragrunt-cache in the resource directory.
CreateCacheDir ==
    /\ op_pc = "idle"
    /\ dir_exists
    /\ ~has_cache
    /\ has_cache' = TRUE
    /\ UNCHANGED <<op_pc, op, op_arg, dir_exists, cache_found, op_calls,
                   init_result, op_result>>
    /\ UNCHANGED <<coreVars, othersOp>>

\* terragrunt_manager.py 344-351: the call, up to the test of the resource
\* directory
PlanResource(dry) ==
    /\ op_pc = "idle"
    /\ op' = "plan"
    /\ op_arg' = dry
    /\ op_pc' = IF dir_exists THEN "ensure" ELSE "raised"
    /\ UNCHANGED <<dir_exists, has_cache, cache_found, op_calls,
                   init_result, op_result>>
    /\ UNCHANGED <<coreVars, othersOp>>

\* terragrunt_manager.py 396-403: the call, up to the test of the resource
\* directory
ApplyResource(plan_file) ==
    /\ op_pc = "idle"
    /\ op' = "apply"
    /\ op_arg' = plan_file
    /\ op_pc' = IF dir_exists THEN "ensure" ELSE "raised"
    /\ UNCHANGED <<dir_exists, has_cache, cache_found, op_calls,
                   init_result, op_result>>
    /\ UNCHANGED <<coreVars, othersOp>>

\* terragrunt_manager.py 481-486: the cache directory exists, nothing runs
EnsureInitializedCached ==
    /\ op_pc = "ensure"
    /\ has_cache
    /\ cache_found' = TRUE
    /\ op_pc' = "command"
    /\ UNCHANGED <<op, op_arg, dir_exists, has_cache, op_calls,
                   init_result, op_result>>
    /\ UNCHANGED <<coreVars, othersOp>>

\* terragrunt_manager.py 486-498: no cache directory; init runs and
\* run_command returns r. Whether the tool has created the cache directory
\* by then is the tool's business.
EnsureInitializedRunsInit(r, created) ==
    /\ op_pc = "ensure"
    /\ ~has_cache
    /\ cache_found' = FALSE
    /\ op_calls' = Append(op_calls, InitCommand)
    /\ init_result' = r
    /\ has_cache' = created
    /\ op_pc' = IF InitFailed(r) THEN "raised" ELSE "command"
    /\ UNCHANGED <<op, op_arg, dir_exists, op_result>>
    /\ UNCHANGED <<coreVars, othersOp>>

\* terragrunt_manager.py 357-390 and 405-443: the plan or apply command
\* runs and run_command returns r
RunOperation(r) ==
    /\ op_pc = "command"
    /\ op_calls' = Append(op_calls, OperationCommand(op, op_arg))
    /\ op_result' = r
    /\ op_pc' = IF OperationRaises(op, r) THEN "raised" ELSE "returned"
    /\ UNCHANGED <<op, op_arg, dir_exists, has_cache, cache_found,
                   init_result>>
    /\ UNCHANGED <<coreVars, othersOp>>

NextOp ==
    \/ CreateResourceDir
    \/ CreateCacheDir
    \/ \E dry \in BOOLEAN : PlanResource(dry)
    \/ \E plan_file \in PlanFiles : ApplyResource(plan_file)
    \/ EnsureInitializedCached
    \/ \E r \in RunCommandResults, created \in BOOLEAN :
          EnsureInitializedRunsInit(r, created)
    \/ \E r \in RunCommandResults : RunOperation(r)

(***************************************************************************)
(* _build_tree_structure (terragrunt_manager.py 706-748)                   *)
(***************************************************************************)

\* The most resources in one resources_data list.
MaxResources == 3

\* The paths of the resources, split at "/": a unit, and two units below it.
ResourcePaths == {<<"a">>, <<"a", "b">>, <<"a", "c">>}

\* The resources of a find output: path, type and dependencies.
Resources ==
    [path : ResourcePaths, type : {"compute"},
     dependencies : {<<>>, <<"x">>}]

\* The values of max_depth: 0 for None (both skip the test of line 732).
MaxDepths == {0, 1, 2}

\* "resource_data": None
NoResource == [path |-> <<>>, type |-> None, dependencies |-> <<>>]

\* terragrunt_manager.py 714-721: the tree with the root alone; a node is
\* kept under the path from the root to it
EmptyTree == [p \in {} |-> NoResource]

\* terragrunt_manager.py 731-733: the parts of the path the loop reaches
ReachedParts(path, max_depth) ==
    {i \in 1..Len(path) : max_depth = 0 \/ i <= max_depth}

\* terragrunt_manager.py 736-743: the node made for part i of resource r
NewNode(r, i, incl) ==
    [name |-> r.path[i],
     type |-> IF i < Len(r.path) THEN "folder" ELSE r.type,
     level |-> i,
     resource_data |-> IF i = Len(r.path) THEN r ELSE NoResource,
     dependencies |-> IF incl THEN r.dependencies ELSE <<>>]

\* terragrunt_manager.py 724-746: one iteration of `for resource in
\* resources_data`; a node that exists is left as it is
InsertResource(t, r, incl, max_depth) ==
    LET new == {SubSeq(r.path, 1, i) : i \in ReachedParts(r.path, max_depth)}
    IN  [p \in DOMAIN t \cup new |->
            IF p \in DOMAIN t THEN t[p] ELSE NewNode(r, Len(p), incl)]

\* terragrunt_manager.py 706-748
RECURSIVE BuildInto(_, _, _, _)
BuildInto(t, rs, incl, max_depth) ==
    IF rs = <<>> THEN t
    ELSE BuildInto(InsertResource(t, Head(rs), incl, max_depth),
                   Tail(rs), incl, max_depth)

BuildTreeStructure(rs, incl, max_depth) ==
    BuildInto(EmptyTree, rs, incl, max_depth)

TreeInit ==
    /\ tree_pc = "input"
    /\ resources_data = <<>>
    /\ tree_include_dependencies = TRUE
    /\ tree_max_depth = 0
    /\ tree = EmptyTree

\* The find output lists one more unit (each unit once).
AddResource(r) ==
    /\ tree_pc = "input"
    /\ Len(resources_data) < MaxResources
    /\ \A i \in 1..Len(resources_data) : resources_data[i].path # r.path
    /\ resources_data' = Append(resources_data, r)
    /\ UNCHANGED <<tree_pc, tree_include_dependencies, tree_max_depth, tree>>
    /\ UNCHANGED <<coreVars, othersTree>>

\* terragrunt_manager.py 706-748
BuildTree(incl, max_depth) ==
    /\ tree_pc = "input"
    /\ tree_include_dependencies' = incl
    /\ tree_max_depth' = max_depth
    /\ tree' = BuildTreeStructure(resources_data, incl, max_depth)
    /\ tree_pc' = "built"
    /\ UNCHANGED resources_data
    /\ UNCHANGED <<coreVars, othersTree>>

NextTree ==
    \/ \E r \in Resources : AddResource(r)
    \/ \E incl \in BOOLEAN, max_depth \in MaxDepths :
          BuildTree(incl, max_depth)

(***************************************************************************)
(* The id of a StackExecution (stack_manager.py 398-417), over the calls   *)
(* of execute_stack_command one server handles                             *)
(***************************************************************************)

\* The calls of execute_stack_command.
Calls == {1, 2}

\* Clock readings per second: datetime.now() is finer than the second.
TicksPerSecond == 2

\* The last clock reading of the model, in ticks.
MaxTicks == 3

\* stack_manager.py 398: strftime('%Y%m%d_%H%M%S') keeps the second of the
\* reading and drops the rest
ExecutionId(t) == <<"stack_exec", t \div TicksPerSecond>>

\* No execution_id yet.
NoId == <<"stack_exec", -1>>

IdInit ==
    /\ id_now = 0
    /\ call_pc = [c \in Calls |-> "idle"]
    /\ execution_id = [c \in Calls |-> NoId]
    /\ executions = [c \in Calls |-> NoId]

\* Time passes.
ClockTick ==
    /\ id_now < MaxTicks
    /\ id_now' = id_now + 1
    /\ UNCHANGED <<call_pc, execution_id, executions>>
    /\ UNCHANGED <<coreVars, othersId>>

\* stack_manager.py 391-401: a call starts, names its execution and awaits
\* _create_stack_from_path
CallExecuteStackCommand(c) ==
    /\ call_pc[c] = "idle"
    /\ execution_id' = [execution_id EXCEPT ![c] = ExecutionId(id_now)]
    /\ call_pc' = [call_pc EXCEPT ![c] = "create_stack"]
    /\ UNCHANGED <<id_now, executions>>
    /\ UNCHANGED <<coreVars, othersId>>

\* stack_manager.py 401-417: the stack is found and the StackExecution is
\* created with id = execution_id
CreateExecution(c) ==
    /\ call_pc[c] = "create_stack"
    /\ executions' = [executions EXCEPT ![c] = execution_id[c]]
    /\ call_pc' = [call_pc EXCEPT ![c] = "created"]
    /\ UNCHANGED <<id_now, execution_id>>
    /\ UNCHANGED <<coreVars, othersId>>

\* stack_manager.py 402-403: Stack not found
StackNotFound(c) ==
    /\ call_pc[c] = "create_stack"
    /\ call_pc' = [call_pc EXCEPT ![c] = "raised"]
    /\ UNCHANGED <<id_now, execution_id, executions>>
    /\ UNCHANGED <<coreVars, othersId>>

NextId ==
    \/ ClockTick
    \/ \E c \in Calls : CallExecuteStackCommand(c)
    \/ \E c \in Calls : CreateExecution(c)
    \/ \E c \in Calls : StackNotFound(c)

(***************************************************************************)
(* Specifications                                                          *)
(***************************************************************************)

Init ==
    /\ PlanInit /\ ExecInit /\ RunInit /\ DiscInit
    /\ PathInit
    /\ DepsInit
    /\ StackRunInit
    /\ VizInit
    /\ ParseInit
    /\ OpInit
    /\ TreeInit
    /\ IdInit

SpecPlan == Init /\ [][NextPlan]_vars

\* The planner is a coroutine that nothing suspends: its loop keeps running.
FairSpecPlan ==
    Init /\ [][NextPlan]_vars /\ WF_vars(PlanIterate) /\ WF_vars(PlanReturn)

SpecExec == Init /\ [][NextExec]_vars

SpecRun == Init /\ [][NextRun]_vars

SpecDisc == Init /\ [][NextDisc]_vars

SpecPath == Init /\ [][NextPath]_vars

SpecDeps == Init /\ [][NextDeps]_vars

SpecStackRun == Init /\ [][NextStackRun]_vars

SpecViz == Init /\ [][NextViz]_vars

SpecParse == Init /\ [][NextParse]_vars

SpecOp == Init /\ [][NextOp]_vars

SpecTree == Init /\ [][NextTree]_vars

SpecId == Init /\ [][NextId]_vars

(***************************************************************************)
(* Claims about _calculate_execution_order                                 *)
(***************************************************************************)

\* The 1-based index of the batch of execution_order that holds unit u.
BatchIndex(u) == CHOOSE i \in 1..Len(execution_order) : u \in execution_order[i]

Emitted(u) == \E i \in 1..Len(execution_order) : u \in execution_order[i]

\* d is declared by u and is itself a unit of the set.
DependsOn(u, d) ==
    /\ d \in units
    /\ \E k \in 1..Len(dependencies[u]) : dependencies[u][k] = d

\* The dependency relation over the unit set has no cycle (a self-edge is one):
\* the units can be ranked so that every edge goes from a lower rank.
Acyclic ==
    \E rank \in [units -> 1..Cardinality(units)] :
        \A u \in units, d \in units : DependsOn(u, d) => rank[d] < rank[u]

DependencyFree == \A u \in units : dependencies[u] = <<>>

\* The cap of the loop is never the reason an iteration does not run.
PlanLoopWithinCap ==
    plan_pc = "loop" /\ remaining_units # {}
        => Len(execution_order) < Cardinality(units)

\* C1: for an acyclic dependency relation, every unit is in a batch of
\* strictly greater index than each of its dependencies that is in the set.
C1_DependenciesInEarlierBatches ==
    (plan_pc = "done" /\ Acyclic) =>
        \A u \in units, d \in units :
            DependsOn(u, d) =>
                /\ Emitted(u) /\ Emitted(d)
                /\ BatchIndex(d) < BatchIndex(u)

\* C1 witness: an acyclic chain planned into three batches.
C1_Witness ==
    /\ plan_pc = "done" /\ Acyclic
    /\ Len(execution_order) = 3
    /\ \E u \in units, d \in units : DependsOn(u, d)

\* C2 as stated: every dependency-free unit set, the empty one included,
\* yields exactly one batch, holding all the units.
C2_OneBatchAlways ==
    (plan_pc = "done" /\ DependencyFree) =>
        /\ Len(execution_order) = 1
        /\ execution_order[1] = units

\* C2 amended: a non-empty dependency-free unit set yields exactly one batch,
\* holding all the units; the empty unit set yields no batch at all.
C2_OneBatchUnlessEmpty ==
    (plan_pc = "done" /\ DependencyFree) =>
        IF units = {}
        THEN execution_order = <<>>
        ELSE /\ Len(execution_order) = 1
             /\ execution_order[1] = units

\* C2 witness: three units without dependencies have been planned.
C2_Witness ==
    /\ plan_pc = "done" /\ DependencyFree
    /\ Cardinality(units) = 3
    /\ Len(execution_order) = 1

\* C3: whatever the dependency relation, cyclic ones included, the loop of the
\* planner terminates, and then every unit has been emitted in some batch.
C3_PlannerTerminates ==
    (plan_pc = "loop") ~> (plan_pc = "done" /\ \A u \in units : Emitted(u))

\* C3 witness: web and db depend on each other, and both have been emitted.
C3_Witness ==
    /\ plan_pc = "done"
    /\ DependsOn("web", "db") /\ DependsOn("db", "web")
    /\ Emitted("web") /\ Emitted("db")
    /\ warnings = 1

\* C4: an iteration that finds no ready unit emits the whole of
\* remaining_units, with a warning, and leaves nothing to plan (its batch is
\* the last); any other iteration emits exactly the ready set; no other step
\* adds a batch.
C4_ForcedBatchIsLast ==
    [][ LET ready == {u \in remaining_units :
                        \A k \in 1..Len(dependencies[u]) :
                            dependencies[u][k] \notin remaining_units}
            n == Len(execution_order)
        IN IF plan_pc = "loop" /\ remaining_units # {}
           THEN /\ Len(execution_order') = n + 1
                /\ SubSeq(execution_order', 1, n) = execution_order
                /\ IF ready = {}
                   THEN /\ execution_order'[n + 1] = remaining_units
                        /\ remaining_units' = {}
                        /\ warnings' = warnings + 1
                   ELSE /\ execution_order'[n + 1] = ready
                        /\ warnings' = warnings
           ELSE plan_pc = "loop" => execution_order' = execution_order
      ]_vars

\* C4 witness: a forced batch has been emitted after a regular one.
C4_Witness ==
    /\ plan_pc = "done"
    /\ warnings = 1
    /\ Len(execution_order) = 2

\* The dependency lists with every self-entry removed.
WithoutSelfEdges(deps) ==
    [p \in Paths |-> SelectSeq(deps[p], LAMBDA dep : dep # p)]

\* The dependency lists with every entry outside the unit set removed.
WithoutDangling(deps) ==
    [p \in Paths |-> SelectSeq(deps[p], LAMBDA dep : dep \in units)]

\* C5: a self-edge is ignored: the batches computed are those computed with
\* the self-entries removed from the dependency lists.
C5_SelfEdgeIgnored ==
    plan_pc = "done" =>
        execution_order =
            CalculateExecutionOrder(units, WithoutSelfEdges(dependencies))

\* C6: a dependency outside the unit set never blocks: a unit whose
\* dependencies all lie outside the set is in the first batch, and the batches
\* are those computed with the dangling entries removed.
C6_DanglingNeverBlocks ==
    plan_pc = "done" =>
        /\ \A u \in units :
              (\A k \in 1..Len(dependencies[u]) :
                    dependencies[u][k] \notin units)
                 => u \in execution_order[1]
        /\ execution_order =
              CalculateExecutionOrder(units, WithoutDangling(dependencies))

\* C6 witness: a unit with only a dangling dependency went first, ahead of a
\* unit that depends on it.
C6_Witness ==
    /\ plan_pc = "done"
    /\ \E u \in units, v \in units :
          /\ dependencies[u] # <<>>
          /\ \A k \in 1..Len(dependencies[u]) : dependencies[u][k] \notin units
          /\ DependsOn(v, u)
          /\ u \in execution_order[1]
          /\ v \in execution_order[2]

(***************************************************************************)
(* Claims about execute_stack_command                                      *)
(***************************************************************************)

Returned == exec_pc = "returned"

\* C7: the status of a StackExecution starts as planning, changes only along
\* planning -> applying -> deployed or failed, never leaves deployed or
\* failed, and is deployed or failed when the execution is returned.
C7_StatusPath ==
    [][ /\ (execution = NoExecution /\ execution' # NoExecution)
             => execution'.status = "planning"
        /\ execution # NoExecution =>
             /\ execution' # NoExecution
             /\ execution'.status # execution.status =>
                  <<execution.status, execution'.status>> \in
                      {<<"planning", "applying">>,
                       <<"applying", "deployed">>,
                       <<"applying", "failed">>}
        /\ exec_pc' = "returned" =>
             execution'.status \in {"deployed", "failed"}
      ]_vars

\* C7 witness: an execution was returned as deployed.
C7_Witness ==
    /\ Returned
    /\ execution.status = "deployed"
    /\ run_state = "returned"

\* C8: completed_at is assigned at most once, only after the awaited
\* run_command has returned or raised, and exactly once by the time the
\* execution is returned.
C8_CompletedAtOnce ==
    /\ completed_at_writes <= 1
    /\ completed_at_writes >= 1 => run_state \in {"returned", "raised"}
    /\ (execution.completed_at # NoTime) <=> (completed_at_writes >= 1)
    /\ Returned => completed_at_writes = 1

\* C8 witness: run_command raised and the handler returned the execution.
C8_Witness ==
    /\ Returned
    /\ run_state = "raised"
    /\ completed_at_writes = 1
    /\ execution.completed_at > execution.started_at

\* C9: a returned execution has error_message set exactly when its status is
\* failed: stderr after a non-zero exit code or a timeout, the exception's
\* text after an exception, and None when the status is deployed.
C9_ErrorMessageIffFailed ==
    Returned =>
        /\ (execution.error_message # None) <=> (execution.status = "failed")
        /\ (run_state = "returned" /\ cmd_result.exit_code # 0)
              => /\ execution.status = "failed"
                 /\ execution.error_message = cmd_result.stderr
        /\ run_state = "raised" => execution.status = "failed"

\* C9 witness: a timed-out command was returned as failed, with the message.
C9_Witness ==
    /\ Returned
    /\ run_state = "returned"
    /\ cmd_result = TimeoutResult
    /\ execution.status = "failed"
    /\ execution.error_message = "Command timed out"

\* The command words that change infrastructure state.
MutatingCommands == {"apply", "destroy"}

\* An argv asks the tool to change state: it names a mutating command and
\* does not carry the dry-run option.
CanChangeState(argv) ==
    /\ \E k \in 1..Len(argv) : argv[k] \in MutatingCommands
    /\ \A k \in 1..Len(argv) : argv[k] # "--dry-run"

BuiltUnitPaths ==
    IF disc_mode = "resources"
    THEN {result[i].path : i \in 1..Len(result)}
    ELSE {stack_units[j].path : j \in 1..Len(stack_units)}
            \cup UNION {{result[i].units[j].path :
                            j \in 1..Len(result[i].units)} :
                        i \in 1..Len(result)}

\* C11: the unit status probe maps a subprocess that ran and returned a
\* non-zero exit code with empty stdout to not-deployed, and a subprocess
\* that could not be launched to unknown.
C11_ProbeOutcomeMapping ==
    last_probe # NoProbe =>
        /\ (/\ last_probe.event.kind = "exit"
            /\ last_probe.event.r.exit_code # 0
            /\ last_probe.event.r.stdout = "")
              => last_probe.status = "not_deployed"
        /\ last_probe.event.kind = "launch_error"
              => last_probe.status = "unknown"

\* C12: within one discover_stacks call no unit path is probed twice, also
\* when a stack directory lies inside another stack directory.
C12_ProbedOncePerPass ==
    disc_mode = "stacks" =>
        \A i, j \in 1..Len(probes) : probes[i] = probes[j] => i = j

(***************************************************************************)
(* Claims about run_command                                                *)
(***************************************************************************)

\* What execute_stack_command records of a returned tuple (lines 439-446):
\* the status, the error message, and unit_results, which is parsed from
\* the text of stdout and stderr.
ExecutionOf(r) ==
    [status |-> FinalStatus(r.exit_code),
     error_message |-> ErrorMessage(r.exit_code, r.stderr, None),
     parsed_from |-> <<r.stdout, r.stderr>>]

\* C13: when the subprocess does not finish within the timeout, run_command
\* does not raise; it returns a negative exit code, empty stdout and a
\* message in stderr, and the status probe and execute_stack_command go on
\* with that tuple on their ordinary branch (not-deployed, failed).
C13_TimeoutReturnsSentinel ==
    run_event = "timeout" =>
        /\ run_pc = "returned"
        /\ run_result.exit_code < 0
        /\ run_result.stdout = ""
        /\ run_result.stderr # ""
        /\ GetUnitStatus(TRUE, ExitOutcome(run_result)) = "not_deployed"
        /\ ExecutionOf(run_result).status = "failed"
        /\ ExecutionOf(run_result).error_message = run_result.stderr

C13_Witness ==
    /\ run_event = "timeout"
    /\ run_pc = "returned"
    /\ run_result = TimeoutResult

\* C14: on timeout the external process is killed: whenever run_command has
\* returned its timeout result, the subprocess it launched is no longer
\* running.
C14_KilledOnTimeout ==
    (run_pc = "returned" /\ run_event = "timeout") => proc # "running"

\* C15: the result of a timed-out command differs from the result of a
\* command that failed to launch or that ran to its end, at the tuple
\* run_command returns and at what the Execution records of it.
C15_TimeoutDistinguishable ==
    (run_pc = "returned" /\ run_event # "timeout") =>
        /\ run_result # TimeoutResult
        /\ ExecutionOf(run_result) # ExecutionOf(TimeoutResult)

\* C16: run_command leaves os.environ as it was at the call, and the
\* subprocess gets the ambient environment with the keys of env_vars
\* overriding.
C16_AmbientEnvironmentUnchanged ==
    run_pc # "idle" =>
        /\ os_environ = environ_at_call
        /\ DOMAIN child_env = DOMAIN environ_at_call \cup DOMAIN env_vars
        /\ \A k \in DOMAIN env_vars : child_env[k] = env_vars[k]
        /\ \A k \in DOMAIN environ_at_call \ DOMAIN env_vars :
                child_env[k] = environ_at_call[k]

C16_Witness ==
    /\ run_pc = "returned"
    /\ proc = "exited"
    /\ "GOOGLE_CLOUD_PROJECT" \in DOMAIN environ_at_call
    /\ "GOOGLE_CLOUD_PROJECT" \in DOMAIN env_vars
    /\ environ_at_call["GOOGLE_CLOUD_PROJECT"] # env_vars["GOOGLE_CLOUD_PROJECT"]
    /\ "PATH" \notin DOMAIN env_vars

(***************************************************************************)
(* Claims about the discovery calls                                        *)
(***************************************************************************)

\* Path p has a segment named .terragrunt-cache.
HasCacheSegment(p) == \E i \in 1..Len(p) : p[i] = ".terragrunt-cache"

\* The directories with a terragrunt.hcl that lie outside every cache.
UnitsOfTree ==
    {u \in DOMAIN fs : "terragrunt.hcl" \in fs[u] /\ ~HasCacheSegment(u)}

\* The stack directories of the tree.
StacksOfTree == {s \in DOMAIN fs : "stack.hcl" \in fs[s]}

\* Directory u lies strictly below directory s.
Below(u, s) == Len(u) > Len(s) /\ SubSeq(u, 1, Len(s)) = s

C18_FilteredBeforeProbe ==
    (disc_mode \in {"resources", "stacks"} /\ environment # None) =>
        /\ \A i \in 1..Len(probes) :
                ParseTerragruntPath(probes[i]).environment = environment
        /\ \A i \in 1..Len(result) :
                IF disc_mode = "resources"
                THEN ParseTerragruntPath(result[i].path).environment
                        = environment
                ELSE \A j \in 1..Len(result[i].units) :
                        ParseTerragruntPath(result[i].units[j].path).environment
                            = environment

C20_FailuresIsolated ==
    /\ disc_pc \in {"idle", "walk", "stack_units", "done"}
    /\ (disc_pc = "done" /\ disc_mode = "resources") =>
          \A u \in UnitsOfTree :
              (/\ u[5] \in ResourceTypes
               /\ environment \in {None, u[3]})
                  => \E i \in 1..Len(result) : result[i].path = u
    /\ (disc_pc = "done" /\ disc_mode = "stacks") =>
          \A s \in StacksOfTree :
              environment \in {None, s[Len(s)]} =>
                  \E i \in 1..Len(result) :
                      /\ result[i].path = s
                      /\ \A u \in UnitsOfTree :
                            Below(u, s) =>
                                \E j \in 1..Len(result[i].units) :
                                    result[i].units[j].path = u

C20_Witness ==
    /\ disc_pc = "done"
    /\ disc_mode = "resources"
    /\ DevWidget \in UnitsOfTree
    /\ ProdCompute \in unreadable
    /\ last_probe.path = DevCompute
    /\ last_probe.event.kind = "launch_error"
    /\ {result[i].path : i \in 1..Len(result)} = {DevCompute, ProdCompute}
    /\ \E i \in 1..Len(result) : result[i].configuration = "empty"

(***************************************************************************)
(* Claims C21 and C22: the path parser and the path builder                *)
(***************************************************************************)

\* C21: for every well-formed path live/<account>/<environment>/<project>/
\* [<region>/]<resourceType>[/<name segment>...], with any number of trailing
\* name segments, build_terragrunt_path applied to the fields that
\* parse_terragrunt_path returned gives the path back.
C21_RoundTrip ==
    (WellFormedPath(path_parts) /\ path_pc \in {"built", "raised"})
        => (path_pc = "built" /\ built_path = path_parts)

\* C22: for a path live/<account>/<environment> of three segments the parser
\* returns account and environment from the second and third segment and
\* leaves project, region, resource_type and resource_name absent.
C22_MinimalPath ==
    (path_pc = "parsed" /\ Len(path_parts) = 3 /\ path_parts[1] = "live")
        => parsed = [NoComponents EXCEPT !.account = path_parts[2],
                                         !.environment = path_parts[3]]

(***************************************************************************)
(* Claim C23: the two dependency extractors                                *)
(***************************************************************************)

\* Number of leading ".." of a reference.
RECURSIVE LeadingUps(_)
LeadingUps(ref) ==
    IF ref # <<>> /\ Head(ref) = ".." THEN 1 + LeadingUps(Tail(ref)) ELSE 0

\* The reference climbs above the root of the filesystem.
ClimbsAboveFilesystem(root_path, unit_path, ref) ==
    LeadingUps(ref) > Len(root_path) + Len(unit_path)

\* The directory a relative reference names, worked out by hand: from the
\* unit's directory go up once per "..", staying at "/" once there, go down
\* by the rest, and write the result relative to the scan root.
ManualResolve(root_path, unit_path, ref) ==
    LET k == LeadingUps(ref)
        rest == SubSeq(ref, k + 1, Len(ref))
        depth == Len(root_path) + Len(unit_path)
        kept == IF depth >= k THEN depth - k ELSE 0
    IN  IF kept >= Len(root_path)
        THEN SubSeq(unit_path, 1, kept - Len(root_path)) \o rest
        ELSE Ups(Len(root_path) - kept) \o rest

C24_BatchBarrier ==
    \A i \in 1..Len(execution_plan), j \in 1..Len(execution_plan) :
        i < j =>
            \A v \in execution_plan[i], u \in execution_plan[j] :
                unit_state[u] # "pending" => unit_state[v] = "finished"

(***************************************************************************)
(* Claim C25: one discovery per visualization request                      *)
(***************************************************************************)

\* C25: while one visualization request is served, the discovery of the
\* units (the find command) runs at most once, and when the request yields
\* both a tree and a dependency graph they come from the same discovery.
C25_DiscoveryOnce ==
    /\ Len(find_calls) <= 1
    /\ results = {"tree", "dependency_graph"} => tree_seen = graph_seen

(***************************************************************************)
(* Claim C26: the batches partition the unit set                           *)
(***************************************************************************)

\* The units emitted so far, over all batches.
EmittedUnits == UNION {execution_order[i] : i \in 1..Len(execution_order)}

\* C26: in every iteration of the planner's loop the remaining units and the
\* emitted batches together are the unit set and share no unit; no batch is
\* empty, no batch holds a path outside the unit set, no path is in two
\* batches; at the return every unit is in exactly one batch. This holds
\* with cycles and with duplicate dependency entries alike.
C26_BatchesPartitionUnits ==
    plan_pc \in {"loop", "done"} =>
        /\ remaining_units \cup EmittedUnits = units
        /\ remaining_units \cap EmittedUnits = {}
        /\ \A i \in 1..Len(execution_order) :
              /\ execution_order[i] # {}
              /\ execution_order[i] \subseteq units
              /\ \A j \in 1..Len(execution_order) :
                    i # j => execution_order[i] \cap execution_order[j] = {}
        /\ plan_pc = "done" =>
              /\ remaining_units = {}
              /\ \A u \in units :
                    Cardinality({i \in 1..Len(execution_order) :
                                    u \in execution_order[i]}) = 1

\* A returned plan of several batches for a stack with a cycle (a forced
\* batch was emitted) and a dependency declared twice by one unit.
C26_Witness ==
    /\ plan_pc = "done"
    /\ warnings > 0
    /\ Len(execution_order) >= 2
    /\ \E u \in units :
          /\ Len(dependencies[u]) >= 2
          /\ dependencies[u][1] = dependencies[u][2]

(***************************************************************************)
(* Claim C27: the per-unit result map                                      *)
(***************************************************************************)

\* The texts the scan owes to unit u, in order: the non-blank lines without
\* a marker whose most recent marker names u, those with an error
\* (want_errors) or those without.
RECURSIVE LinesOwedTo(_, _, _, _)
LinesOwedTo(ls, current, u, want_errors) ==
    IF ls = <<>> THEN <<>>
    ELSE LET line == Head(ls)
         IN  IF line.marker
             THEN LinesOwedTo(Tail(ls),
                              IF line.unit # None THEN line.unit ELSE current,
                              u, want_errors)
             ELSE (IF /\ current = u
                      /\ line.text # ""
                      /\ HasError(line) = want_errors
                   THEN <<line.text>> ELSE <<>>)
                      \o LinesOwedTo(Tail(ls), current, u, want_errors)

\* C27: after _parse_stack_output every entry of the result map is completed
\* or failed, never running; an entry is failed exactly if its errors list
\* is not empty; and every non-blank line that follows a unit-boundary
\* marker is in exactly one of output and errors of the unit the most recent
\* marker names (an error line in errors, any other in output).
C27_ResultMap ==
    parse_pc = "returned" =>
        LET all == stdout_lines \o stderr_lines
        IN  \A u \in DOMAIN unit_results :
              /\ unit_results[u].status \in {"completed", "failed"}
              /\ unit_results[u].status = "failed"
                    <=> unit_results[u].errors # <<>>
              /\ unit_results[u].output = LinesOwedTo(all, None, u, FALSE)
              /\ unit_results[u].errors = LinesOwedTo(all, None, u, TRUE)

(***************************************************************************)
(* Claim C28: init before plan and apply                                   *)
(***************************************************************************)

\* The argv of the plan and apply commands.
OperationCommands ==
    {PlanCommand(dry) : dry \in BOOLEAN}
        \cup {ApplyCommand(plan_file) : plan_file \in PlanFiles}

\* C28: plan_resource and apply_resource never start the plan or apply
\* command before initialization is settled. Without a cache directory init
\* is the first command run, and the plan or apply command is run only after
\* init returned exit code 0; when init returns another exit code (the -1 of
\* a timeout included) the operation raises and the plan or apply command is
\* never run. With a cache directory init is not run.
C28_InitSettledFirst ==
    /\ \A i \in 1..Len(op_calls) :
          op_calls[i] \in OperationCommands =>
              \/ cache_found /\ i = 1
              \/ /\ ~cache_found
                 /\ i = 2
                 /\ op_calls[1] = InitCommand
                 /\ init_result.exit_code = 0
    /\ cache_found => \A i \in 1..Len(op_calls) : op_calls[i] # InitCommand
    /\ (op_pc \in {"command", "returned"} /\ ~cache_found) =>
          (op_calls # <<>> /\ op_calls[1] = InitCommand)
    /\ (init_result # NoResult /\ init_result.exit_code # 0) =>
          (op_pc = "raised" /\ op_calls = <<InitCommand>>)

\* plan_resource on a directory without cache: init times out, the call
\* raises and only init was run.
C28_Witness ==
    /\ op = "plan"
    /\ op_pc = "raised"
    /\ ~cache_found
    /\ init_result = TimeoutResult
    /\ op_calls = <<InitCommand>>

(***************************************************************************)
(* Claim C29: the tree and the order of the resources                      *)
(***************************************************************************)

\* The lists with the elements of rs in another order.
PermutationsOf(rs) ==
    {[i \in 1..Len(rs) |-> rs[f[i]]] :
        f \in {g \in [1..Len(rs) -> 1..Len(rs)] :
                  \A i, j \in 1..Len(rs) : g[i] = g[j] => i = j}}

\* C29: the tree does not depend on the order of the resources: built from
\* any permutation of the list it has the same nodes with the same type,
\* resource_data and dependencies, also when the path of one unit is a
\* prefix of the path of another.
C29_OrderIndependent ==
    tree_pc = "built" =>
        \A perm \in PermutationsOf(resources_data) :
            BuildTreeStructure(perm, tree_include_dependencies,
                               tree_max_depth) = tree

(***************************************************************************)
(* Claim C30: the identity of an execution                                 *)
(***************************************************************************)

\* C30: two executions created by distinct calls of execute_stack_command
\* have different ids, also when the calls start within one clock second or
\* overlap.
C30_UniqueIds ==
    \A c \in Calls, d \in Calls :
        (c # d /\ call_pc[c] = "created" /\ call_pc[d] = "created")
            => executions[c] # executions[d]

====
